---- MODULE Spec2Model ----
(***************************************************************************)
(* The pursuer's AI state machine of the Marble chase game (the EnemyAI    *)
(* module: createAIState, generateSearchWaypoints, updateAIState,          *)
(* getSpeedMultiplier, getMovementTarget) and the enemy's per-frame        *)
(* movement application that consumes it.                                  *)
(*                                                                         *)
(* Fixed point.  Lengths are in tenths of a world unit, velocities in      *)
(* tenths of a unit per second, timers in quarters of a second, random     *)
(* draws of Math.random() in tenths (a draw r stands for r/10), speed      *)
(* multipliers in tenths.  A vector is a triple <<x, y, z>>.               *)
(***************************************************************************)
EXTENDS Integers, Sequences, FiniteSets, TLC

VARIABLES
    ai,                  \* the EnemyAIState object owned by the enemy (aiState.current)
    cachedTarget,        \* EnemySphereV2: the movement target of the last AI tick
    lastAvoidanceForce,  \* EnemySphereV2: the avoidance force of the last AI tick
    force,               \* the force commands issued to the enemy body so far (last one kept)
    lastCanSee,          \* EnemySphereV2: the visibility signal of the last AI tick
    sightDistance,       \* distToPlayer of the last line-of-sight check
    gameState,           \* settings: 'start' | 'setup' | 'countdown' | 'playing' | 'gameover' | 'won'
    isPaused,            \* settings: the pause flag
    useV2AI,             \* settings: EnemySphereV2 (TRUE) or EnemySphere (FALSE) is mounted
    currentTime,         \* state.clock.elapsedTime at the latest frame
    lastAIUpdate,        \* EnemySphereV2: clock time of the last AI tick
    enemyBodyPos,        \* the enemy's position.current at the latest frame
    playerBodyPos,       \* playerPos.current at the latest frame
    enemyCmd,            \* body commands (position, velocity, angular velocity) of the latest enemy frame
    bonk,                \* the latest enemy frame triggered soundManager.playBonkSound
    cachedObstacles,     \* EnemySphereV2: clock time at which the cached obstacle list was collected
    lastCacheUpdate,     \* EnemySphereV2: clock time of the last rebuild of the obstacle cache
    seenFor,             \* clock time for which the player has been in clear sight on frames in play
    canJump,             \* PlayerSphere: no jump cooldown is running
    sinceJump,           \* time since the last jump impulse (units of 50 ms, capped at the cooldown)
    lastGoodVelocity,    \* PlayerSphere: the velocity stored by the last frame that was no hitch
    playerCmd,           \* body commands (position, velocity, angular velocity) of the latest player frame
    torque,              \* the torque applied by the latest player frame
    impulse,             \* the latest player frame applied the jump impulse
    pframe,              \* what the latest player frame saw: its inputs and the branch it took
    soundManager,        \* the SoundManager singleton: enabled, ctx, masterGain, the sonar nodes
    sonarCmd,            \* what the latest updateSonar call was given and what it set
    rendered,            \* the frame callback that ran last and the steps of the rendered frame so far
    lastDistRef,         \* GameLogic: the distance stored by the last frame
    throttleRef,         \* GameLogic: frame time accumulated since the last closing-speed publication
    raised,              \* the latest GameLogic frame ended in an uncaught TypeError
    lastUIUpdate,        \* EnemySphereV2: clock time of the last setEnemyPosition
    published,           \* per store setter: time since its last call, and between its last two
    countdownValue,      \* settings: the countdown value shown, 5 down to 0
    controlsOpen,        \* settings: the settings panel is open
    cues,                \* per countdown cue: the calls of its SoundManager method, and those that sounded
    handled,             \* the UI event handler that ran last (and a bit that flips on every run)
    particles,           \* PlayerSphere: the remaining life of each live jump particle (particlesRef)
    smoothing            \* the interpolation factors applied by the latest player frame in play

\* The line-of-sight state of the enemy.
sightVars == <<lastCanSee, sightDistance>>

\* The game settings, the clock and the enemy body as the frame callbacks
\* of the enemy see and command them.
gameVars ==
    <<gameState, isPaused, useV2AI, currentTime, lastAIUpdate, enemyBodyPos,
      playerBodyPos, enemyCmd, bonk, seenFor, cachedObstacles, lastCacheUpdate>>

\* The obstacle cache of the enemy.
cacheVars == <<cachedObstacles, lastCacheUpdate>>

\* The player's refs and the commands of its frame callback.
playerVars == <<canJump, sinceJump, lastGoodVelocity, playerCmd, torque, impulse, pframe>>

\* The sound engine and the latest sonar update.
audioVars == <<soundManager, sonarCmd>>

\* The refs and the outcome of the GameLogic frame callback.
logicVars == <<lastDistRef, throttleRef, raised>>

\* The values published to the UI and the throttle of the enemy's.
uiVars == <<lastUIUpdate, published>>

\* The scene's frame loop, its GameLogic component and the UI values.
sceneVars == <<rendered, logicVars, uiVars>>

\* The session state outside the frame loop and what the UI handlers did.
sessionVars == <<countdownValue, controlsOpen, cues, handled>>

\* The player's visual effects: jump particles and smoothing.
visualVars == <<particles, smoothing>>

vars ==
    <<ai, cachedTarget, lastAvoidanceForce, force, sightVars, gameVars, playerVars, audioVars,
      sceneVars, sessionVars, visualVars>>

-----------------------------------------------------------------------------
(* Program constants, in the fixed-point units above. *)

CACHE_UPDATE_INTERVAL == 8   \* 2.0 s
UI_UPDATE_INTERVAL == 1      \* 0.25 s
LogicThrottle == 4           \* 0.2 s, in units of 50 ms
ALERT_DURATION == 2          \* 0.5 s
SEARCH_DURATION == 20       \* 5 s
WAYPOINT_REACH_DIST == 20    \* 2 units
searchRadius == 150          \* 15 units
MaxProjection == 150         \* Math.min(speed * 2, 15): 15 units
ChaseLeadDivisor == 150      \* dist / 15
ChaseLeadCap == 15           \* 1.5 s, in tenths of a second
EnemyForceGain == 15         \* enemySpeed * speedMultiplier * 15 * controlMultiplier
VISION_DISTANCE == 250       \* 25 units
SightRange == 400            \* distToPlayer < 40, raycaster.far = 40
MAX_VELOCITY == 250          \* 25 units/s
ResetFloor == -200           \* position.y < -20
ContactDistance == 11        \* dist < 1.1

(* Bound of the model: updateAIState is not called once the timer would    *)
(* pass MaxTimer (in chase the code lets stateTimer grow without limit).   *)
MaxTimer == 22

(* Bound of the frame specification: AI ticks stop once the timer would    *)
(* pass MoveMaxTimer.                                                      *)
MoveMaxTimer == 3

(* Bound of the game specification: frames stop once the clock would pass  *)
(* MaxClock (quarters of a second).                                        *)
MaxClock == 10

(* Bound of the scene specification: the enemy's frames stop once the      *)
(* clock would pass SceneMaxClock (quarters of a second).                  *)
SceneMaxClock == 2

-----------------------------------------------------------------------------
(* Vector arithmetic (THREE.Vector3), integer fixed point. *)

Zero == <<0, 0, 0>>
VAdd(a, b) == <<a[1] + b[1], a[2] + b[2], a[3] + b[3]>>
VSub(a, b) == <<a[1] - b[1], a[2] - b[2], a[3] - b[3]>>
VScale(a, k) == <<a[1] * k, a[2] * k, a[3] * k>>
Dot(a, b) == a[1] * b[1] + a[2] * b[2] + a[3] * b[3]
LenSq(a) == Dot(a, a)

\* Division rounding toward zero (the fixed-point image of a real quotient).
DivTrunc(a, b) == IF a >= 0 THEN a \div b ELSE -((-a) \div b)
VDiv(a, k) == <<DivTrunc(a[1], k), DivTrunc(a[2], k), DivTrunc(a[3], k)>>

\* Math.sqrt, rounded down: bisection on [lo, hi), for n < 2^31.
RECURSIVE SqrtBetween(_, _, _)
SqrtBetween(n, lo, hi) ==
    IF hi - lo <= 1 THEN lo
    ELSE LET mid == (lo + hi) \div 2
         IN  IF mid * mid <= n THEN SqrtBetween(n, mid, hi) ELSE SqrtBetween(n, lo, mid)
ISqrt(n) == SqrtBetween(n, 0, IF n < 46340 THEN n + 1 ELSE 46340)
VLen(a) == ISqrt(LenSq(a))
DistSq(a, b) == LenSq(VSub(a, b))

-----------------------------------------------------------------------------
(* Inputs of the model. *)

States == {"idle", "alert", "chase", "search"}

\* Player positions handed to the AI (playerPos.current).
PlayerPositions == {<<100, 5, 0>>, <<-60, 5, 240>>}

\* Estimated player velocities: at rest, 5 units/s, and 15 units/s (beyond
\* the 7.5 units/s at which the projection saturates).
PlayerVelocities == {Zero, <<30, 0, 40>>, <<90, 0, 120>>}

\* Tick lengths passed as delta (AI_UPDATE_INTERVAL): 0.25 s and 0.5 s.
Deltas == {1, 2}

\* Values Math.random() may return: 0.1, 0.5, 0.9.
RandomValues == {1, 5, 9}

\* The draws one updateAIState call may consume, in order: two for the random
\* heading of a restarted search, two for the jitter, three for the angles.
Draws ==
    { <<1, 1, 1, 1, 1, 1, 1>>,
      <<5, 5, 5, 5, 5, 5, 5>>,
      <<9, 1, 9, 1, 5, 9, 1>> }

Min(a, b) == IF a <= b THEN a ELSE b

-----------------------------------------------------------------------------
(* EnemyAI: the state machine. *)

createAIState ==
    [ state |-> "idle",
      stateTimer |-> 0,
      lastKnownPlayerPos |-> Zero,
      searchWaypoints |-> <<>>,
      currentWaypointIndex |-> 0 ]

\* v.normalize().multiplyScalar(d): normalize() leaves the zero vector zero.
NormalizeTimes(v, d) ==
    IF LenSq(v) = 0 THEN Zero ELSE VDiv(VScale(v, d), VLen(v))

\* (Math.random() - 0.5) * 5 for the draw r.
Jitter(r) == ((r - 5) * 5)

\* searchRadius * (cos(angle), sin(angle)) for angle = i * (PI / 1.5) + r/10,
\* rounded to the grid; tabulated for the draws of RandomValues.
spiralOffset(i, r) ==
    CASE i = 1 /\ r = 1 -> <<-88, 0, 122>>
      [] i = 1 /\ r = 5 -> <<-128, 0, 78>>
      [] i = 1 /\ r = 9 -> <<-148, 0, 22>>
      [] i = 2 /\ r = 1 -> <<-62, 0, -137>>
      [] i = 2 /\ r = 5 -> <<-4, 0, -150>>
      [] i = 2 /\ r = 9 -> <<55, 0, -139>>
      [] i = 3 /\ r = 1 -> <<149, 0, 15>>
      [] i = 3 /\ r = 5 -> <<132, 0, 72>>
      [] i = 3 /\ r = 9 -> <<93, 0, 117>>

\* The first waypoint: where the player was going.
projectedWaypoint(lastKnownPos, playerVel, jx, jz) ==
    LET speed == VLen(playerVel)
        projectionDist == Min(speed * 2, MaxProjection)
        projectedPos == VAdd(lastKnownPos, NormalizeTimes(playerVel, projectionDist))
    IN  IF speed < 10
        THEN VAdd(projectedPos, <<Jitter(jx), 0, Jitter(jz)>>)
        ELSE projectedPos

\* Variant: the spiral loop stops one waypoint short (i < 3).
generateSearchWaypoints_Short(lastKnownPos, playerVel, jx, jz, a1, a2, a3) ==
    << projectedWaypoint(lastKnownPos, playerVel, jx, jz),
       VAdd(lastKnownPos, spiralOffset(1, a1)),
       VAdd(lastKnownPos, spiralOffset(2, a2)) >>

generateSearchWaypoints(lastKnownPos, playerVel, jx, jz, a1, a2, a3) ==
    << projectedWaypoint(lastKnownPos, playerVel, jx, jz),
       VAdd(lastKnownPos, spiralOffset(1, a1)),
       VAdd(lastKnownPos, spiralOffset(2, a2)),
       VAdd(lastKnownPos, spiralOffset(3, a3)) >>

\* new THREE.Vector3(Math.random() - 0.5, 0, Math.random() - 0.5)
randomHeading(r1, r2) == <<r1 - 5, 0, r2 - 5>>

\* Variant: entering alert does not reset the timer.
updateIdle_KeepsTimer(a, playerVisible, playerPos) ==
    IF playerVisible
    THEN [a EXCEPT !.state = "alert", !.lastKnownPlayerPos = playerPos]
    ELSE a

\* case 'idle'
updateIdle(a, playerVisible, playerPos) ==
    IF playerVisible
    THEN [a EXCEPT !.state = "alert",
                   !.stateTimer = 0,
                   !.lastKnownPlayerPos = playerPos]
    ELSE a

\* Variant: the dwell test comes before the visibility test.
updateAlert_DwellFirst(a, playerVisible, playerPos, playerVel, rnd) ==
    LET b == IF a.stateTimer >= ALERT_DURATION
             THEN [a EXCEPT !.state = "chase", !.stateTimer = 0]
             ELSE IF ~playerVisible
             THEN [a EXCEPT !.state = "search",
                            !.stateTimer = 0,
                            !.searchWaypoints =
                                generateSearchWaypoints(a.lastKnownPlayerPos, playerVel,
                                                        rnd[3], rnd[4], rnd[5], rnd[6], rnd[7])]
             ELSE a
    IN  [b EXCEPT !.lastKnownPlayerPos = playerPos]

\* Variant: the dwell test is strict (stateTimer > ALERT_DURATION).
updateAlert_StrictDwell(a, playerVisible, playerPos, playerVel, rnd) ==
    LET b == IF ~playerVisible
             THEN [a EXCEPT !.state = "search",
                            !.stateTimer = 0,
                            !.searchWaypoints =
                                generateSearchWaypoints(a.lastKnownPlayerPos, playerVel,
                                                        rnd[3], rnd[4], rnd[5], rnd[6], rnd[7])]
             ELSE IF a.stateTimer > ALERT_DURATION
             THEN [a EXCEPT !.state = "chase", !.stateTimer = 0]
             ELSE a
    IN  [b EXCEPT !.lastKnownPlayerPos = playerPos]

\* case 'alert'
updateAlert(a, playerVisible, playerPos, playerVel, rnd) ==
    LET b == IF ~playerVisible
             THEN [a EXCEPT !.state = "search",
                            !.stateTimer = 0,
                            !.searchWaypoints =
                                generateSearchWaypoints(a.lastKnownPlayerPos, playerVel,
                                                        rnd[3], rnd[4], rnd[5], rnd[6], rnd[7])]
             ELSE IF a.stateTimer >= ALERT_DURATION
             THEN [a EXCEPT !.state = "chase", !.stateTimer = 0]
             ELSE a
    IN  [b EXCEPT !.lastKnownPlayerPos = playerPos]

\* Variant: losing the player does not reset the waypoint index.
updateChase_KeepsIndex(a, playerVisible, playerPos, playerVel, rnd) ==
    IF playerVisible
    THEN [a EXCEPT !.lastKnownPlayerPos = playerPos]
    ELSE [a EXCEPT !.state = "search",
                   !.stateTimer = 0,
                   !.searchWaypoints =
                       generateSearchWaypoints(a.lastKnownPlayerPos, playerVel,
                                               rnd[3], rnd[4], rnd[5], rnd[6], rnd[7])]

\* case 'chase'
updateChase(a, playerVisible, playerPos, playerVel, rnd) ==
    IF playerVisible
    THEN [a EXCEPT !.lastKnownPlayerPos = playerPos]
    ELSE [a EXCEPT !.state = "search",
                   !.stateTimer = 0,
                   !.searchWaypoints =
                       generateSearchWaypoints(a.lastKnownPlayerPos, playerVel,
                                               rnd[3], rnd[4], rnd[5], rnd[6], rnd[7]),
                   !.currentWaypointIndex = 0]

\* Variant: the search restarts only after more than SEARCH_DURATION.
updateSearch_StrictDuration(a, playerVisible, playerPos, rnd) ==
    IF playerVisible
    THEN [a EXCEPT !.state = "chase",
                   !.stateTimer = 0,
                   !.lastKnownPlayerPos = playerPos]
    ELSE IF a.stateTimer > SEARCH_DURATION
    THEN [a EXCEPT !.stateTimer = 0,
                   !.searchWaypoints =
                       generateSearchWaypoints(a.lastKnownPlayerPos,
                                               randomHeading(rnd[1], rnd[2]),
                                               rnd[3], rnd[4], rnd[5], rnd[6], rnd[7]),
                   !.currentWaypointIndex = 0]
    ELSE a

\* Variant: the length of a search is itself randomised by a draw.
updateSearch_RandomDuration(a, playerVisible, playerPos, rnd) ==
    IF playerVisible
    THEN [a EXCEPT !.state = "chase",
                   !.stateTimer = 0,
                   !.lastKnownPlayerPos = playerPos]
    ELSE IF a.stateTimer >= SEARCH_DURATION - (IF rnd[1] > 5 THEN 1 ELSE 0)
    THEN [a EXCEPT !.stateTimer = 0,
                   !.searchWaypoints =
                       generateSearchWaypoints(a.lastKnownPlayerPos,
                                               randomHeading(rnd[1], rnd[2]),
                                               rnd[3], rnd[4], rnd[5], rnd[6], rnd[7]),
                   !.currentWaypointIndex = 0]
    ELSE a

\* Variant: a restarted search is centred on the current player position.
updateSearch_TracksPlayer(a, playerVisible, playerPos, rnd) ==
    IF playerVisible
    THEN [a EXCEPT !.state = "chase",
                   !.stateTimer = 0,
                   !.lastKnownPlayerPos = playerPos]
    ELSE IF a.stateTimer >= SEARCH_DURATION
    THEN [a EXCEPT !.stateTimer = 0,
                   !.lastKnownPlayerPos = playerPos,
                   !.searchWaypoints =
                       generateSearchWaypoints(playerPos,
                                               randomHeading(rnd[1], rnd[2]),
                                               rnd[3], rnd[4], rnd[5], rnd[6], rnd[7]),
                   !.currentWaypointIndex = 0]
    ELSE a

\* Variant: the search gives up after SEARCH_DURATION and returns to idle.
updateSearch_GivesUp(a, playerVisible, playerPos, rnd) ==
    IF playerVisible
    THEN [a EXCEPT !.state = "chase",
                   !.stateTimer = 0,
                   !.lastKnownPlayerPos = playerPos]
    ELSE IF a.stateTimer >= SEARCH_DURATION
    THEN [a EXCEPT !.state = "idle", !.stateTimer = 0]
    ELSE a

\* case 'search'
updateSearch(a, playerVisible, playerPos, rnd) ==
    IF playerVisible
    THEN [a EXCEPT !.state = "chase",
                   !.stateTimer = 0,
                   !.lastKnownPlayerPos = playerPos]
    ELSE IF a.stateTimer >= SEARCH_DURATION
    THEN [a EXCEPT !.stateTimer = 0,
                   !.searchWaypoints =
                       generateSearchWaypoints(a.lastKnownPlayerPos,
                                               randomHeading(rnd[1], rnd[2]),
                                               rnd[3], rnd[4], rnd[5], rnd[6], rnd[7]),
                   !.currentWaypointIndex = 0]
    ELSE a

\* ai.stateTimer += delta
advanceTimer(a, delta) == [a EXCEPT !.stateTimer = @ + delta]

updateAIState(a, playerVisible, playerPos, delta, playerVel, rnd) ==
    LET t == advanceTimer(a, delta)
    IN  CASE t.state = "idle" -> updateIdle(t, playerVisible, playerPos)
          [] t.state = "alert" -> updateAlert(t, playerVisible, playerPos, playerVel, rnd)
          [] t.state = "chase" -> updateChase(t, playerVisible, playerPos, playerVel, rnd)
          [] t.state = "search" -> updateSearch(t, playerVisible, playerPos, rnd)

\* Variant: idle falls through to the default multiplier.
getSpeedMultiplier_IdleMoves(state) ==
    CASE state = "alert" -> 1
      [] state = "chase" -> 15
      [] state = "search" -> 12
      [] OTHER -> 10

\* Speed multiplier, in tenths.
getSpeedMultiplier(state) ==
    CASE state = "idle" -> 0
      [] state = "alert" -> 1
      [] state = "chase" -> 15
      [] state = "search" -> 12
      [] OTHER -> 10

\* A chase target whose lead time is not capped.
chaseTarget_Uncapped(enemyPos, playerPos, playerVel) ==
    LET dist == VLen(VSub(enemyPos, playerPos))
    IN  VAdd(playerPos, VDiv(VScale(playerVel, dist), ChaseLeadDivisor))

\* The chase target: the player position led by min(dist / 15, 1.5) seconds
\* of player velocity.  The lead time is kept in units of 1/150 s.
chaseTarget(enemyPos, playerPos, playerVel) ==
    LET dist == VLen(VSub(enemyPos, playerPos))
        predictionTime == Min(dist, (ChaseLeadCap * ChaseLeadDivisor) \div 10)
    IN  VAdd(playerPos, VDiv(VScale(playerVel, predictionTime), ChaseLeadDivisor))

\* A search target that advances the index but still returns the waypoint
\* that was just reached.
searchTarget_ReturnsReached(a, enemyPos) ==
    IF Len(a.searchWaypoints) > 0
    THEN LET wp == a.searchWaypoints[a.currentWaypointIndex + 1]
             idx == IF DistSq(enemyPos, wp) < WAYPOINT_REACH_DIST * WAYPOINT_REACH_DIST
                    THEN (a.currentWaypointIndex + 1) % Len(a.searchWaypoints)
                    ELSE a.currentWaypointIndex
         IN  [ ai |-> [a EXCEPT !.currentWaypointIndex = idx], target |-> wp ]
    ELSE [ ai |-> a, target |-> a.lastKnownPlayerPos ]

\* The search target; advances the waypoint index when the current waypoint
\* is reached.  Returns the mutated state and the target.
searchTarget(a, enemyPos) ==
    IF Len(a.searchWaypoints) > 0
    THEN LET wp == a.searchWaypoints[a.currentWaypointIndex + 1]
             idx == IF DistSq(enemyPos, wp) < WAYPOINT_REACH_DIST * WAYPOINT_REACH_DIST
                    THEN (a.currentWaypointIndex + 1) % Len(a.searchWaypoints)
                    ELSE a.currentWaypointIndex
         IN  [ ai |-> [a EXCEPT !.currentWaypointIndex = idx],
               target |-> a.searchWaypoints[idx + 1] ]
    ELSE [ ai |-> a, target |-> a.lastKnownPlayerPos ]

\* A movement target that restarts the state timer when the search moves
\* on to the next waypoint.
getMovementTarget_RestartsTimer(a, enemyPos, playerPos, playerVel) ==
    CASE a.state = "idle" -> [ ai |-> a, target |-> enemyPos ]
      [] a.state = "alert" -> [ ai |-> a, target |-> playerPos ]
      [] a.state = "chase" -> [ ai |-> a, target |-> chaseTarget(enemyPos, playerPos, playerVel) ]
      [] a.state = "search" ->
            LET r == searchTarget(a, enemyPos)
            IN  IF r.ai.currentWaypointIndex # a.currentWaypointIndex
                THEN [ r EXCEPT !.ai.stateTimer = 0 ]
                ELSE r

getMovementTarget(a, enemyPos, playerPos, playerVel) ==
    CASE a.state = "idle" -> [ ai |-> a, target |-> enemyPos ]
      [] a.state = "alert" -> [ ai |-> a, target |-> playerPos ]
      [] a.state = "chase" -> [ ai |-> a, target |-> chaseTarget(enemyPos, playerPos, playerVel) ]
      [] a.state = "search" -> searchTarget(a, enemyPos)

-----------------------------------------------------------------------------
(* EnemySphereV2: movement application, step 5 of the frame callback.      *)
(* Directions are in hundredths, the force in units of 10^-6.              *)

\* Where the enemy may be: its spawn point, next to a player position, and
\* on the waypoint the search is sending it to.
EnemyPositions == {<<0, 200, -150>>, <<100, 5, 8>>}
EnemyPositionsOf(a) ==
    EnemyPositions \cup
        (IF Len(a.searchWaypoints) > 0
         THEN {a.searchWaypoints[a.currentWaypointIndex + 1]}
         ELSE {})

\* Enemy velocities streamed from the physics world: at rest, 5 units/s.
EnemyVelocities == {Zero, <<-40, 0, 30>>}

\* lastAvoidanceForce: none, or the check direction turned 60 degrees, x 20.
AvoidanceForces == {Zero, <<1000, 0, 1732>>}

\* enemySpeed (tenths) and enemyAirControl (hundredths) settings.
EnemySpeeds == {20}
AirControls == {50}

\* A force that is corrected by the braking term whenever the body moves
\* faster than 2 units/s, whatever the alignment.
enemyForce_BrakesWhenFast(state, position, velocity, playerPos, target, avoidance, grounded, enemySpeed, enemyAirControl) ==
    LET controlMultiplier == IF grounded THEN 100 ELSE enemyAirControl
        speedMultiplier == getSpeedMultiplier(state)
        desiredDir == IF state = "chase" \/ state = "alert"
                      THEN NormalizeTimes(VSub(playerPos, position), 100)
                      ELSE NormalizeTimes(VSub(target, position), 100)
        velMag == VLen(velocity)
        velDir == NormalizeTimes(velocity, 100)
        alignment == Dot(velDir, desiredDir)
        steer == VAdd(desiredDir, avoidance)
        brakingStrength == DivTrunc((10000 - alignment) * velMag, 2000)
        f == IF LenSq(velocity) > 400
             THEN << steer[1] - DivTrunc(velDir[1] * brakingStrength, 100),
                     steer[2],
                     steer[3] - DivTrunc(velDir[3] * brakingStrength, 100) >>
             ELSE steer
        speed == enemySpeed * speedMultiplier * EnemyForceGain * controlMultiplier
    IN  << f[1] * speed, 0, f[3] * speed >>

enemyForce(state, position, velocity, playerPos, target, avoidance, grounded, enemySpeed, enemyAirControl) ==
    LET controlMultiplier == IF grounded THEN 100 ELSE enemyAirControl
        speedMultiplier == getSpeedMultiplier(state)
        desiredDir == IF state = "chase" \/ state = "alert"
                      THEN NormalizeTimes(VSub(playerPos, position), 100)
                      ELSE NormalizeTimes(VSub(target, position), 100)
        velMag == VLen(velocity)
        velDir == NormalizeTimes(velocity, 100)
        alignment == Dot(velDir, desiredDir)
        steer == VAdd(desiredDir, avoidance)
        brakingStrength == DivTrunc((10000 - alignment) * velMag, 2000)
        f == IF alignment < 3000 /\ LenSq(velocity) > 400
             THEN << steer[1] - DivTrunc(velDir[1] * brakingStrength, 100),
                     steer[2],
                     steer[3] - DivTrunc(velDir[3] * brakingStrength, 100) >>
             ELSE steer
        speed == enemySpeed * speedMultiplier * EnemyForceGain * controlMultiplier
    IN  << f[1] * speed, 0, f[3] * speed >>

-----------------------------------------------------------------------------
(* The game around the enemy: settings, clock and body commands. *)

GameStates == {"start", "setup", "countdown", "playing", "gameover", "won"}

\* The enemy's spawn point [0, 20, -15] and the player position the scene
\* starts with, (0, 5, 0).
SPAWN_POS == <<0, 200, -150>>
PlayerSpawn == <<0, 50, 0>>

\* No command issued to a body property: the empty tuple.
NoCommand == <<>>
NoCommands == [ position |-> NoCommand, velocity |-> NoCommand, angularVelocity |-> NoCommand ]

-----------------------------------------------------------------------------
(* PlayerSphere: the player's frame callback.  Times are in units of 50 ms *)
(* (the hitch threshold), angular velocities and torques in tenths.         *)

MAX_DELTA == 1               \* 0.05 s
JumpCooldown == 10           \* setTimeout(..., 500)
BoostMinSpeed == 20          \* angSpeed > 2
BrakeMinSpeed == 1           \* currentAngVel.length() > 0.1
brakeForce == 2              \* braking strength 2.0

\* Held keys.
NoKeys == [ w |-> FALSE, a |-> FALSE, s |-> FALSE, d |-> FALSE, space |-> FALSE ]
KeyW == [ NoKeys EXCEPT !.w = TRUE ]
KeySpace == [ NoKeys EXCEPT !.space = TRUE ]

\* What a frame reads from the physics world and the keyboard: the body's
\* velocity, angular velocity and height, the ground check and the keys.
Reading(velocity, angularVelocity, height, grounded, keys) ==
    [ velocity |-> velocity, angularVelocity |-> angularVelocity, y |-> height,
      grounded |-> grounded, keys |-> keys ]

\* A sample of readings: at rest; rolling with no key held; spinning about
\* the vertical axis while moving along z; turning slowly (0.1 rad/s);
\* reversing against the roll on the ground and in the air; the jump key
\* held on the ground and in the air; fallen below the floor.
PlayerReadings ==
    { Reading(Zero, Zero, 5, TRUE, NoKeys),
      Reading(<<30, -10, 40>>, <<30, 0, 0>>, 5, TRUE, NoKeys),
      Reading(<<0, -10, 50>>, <<0, 5, 0>>, 5, TRUE, NoKeys),
      Reading(Zero, <<0, 0, 1>>, 5, TRUE, NoKeys),
      Reading(<<30, -10, 40>>, <<30, 0, 0>>, 5, TRUE, KeyW),
      Reading(<<30, -10, 40>>, <<30, 0, 0>>, 20, FALSE, KeyW),
      Reading(Zero, Zero, 5, TRUE, KeySpace),
      Reading(<<30, -10, 40>>, Zero, 20, FALSE, KeySpace),
      Reading(<<0, -10, 50>>, <<0, 5, 0>>, -210, FALSE, NoKeys) }

\* Frame times: a regular frame (0.05 s) and a hitch (0.1 s).
PlayerDeltas == {1, 2}

\* moveSpeed and playerAirControl (tenths) of the default settings.
MoveSpeeds == {80}
PlayerAirControls == {1}

\* Before the first frame.
NoFrame ==
    [ inPlay |-> FALSE, hitch |-> FALSE, delta |-> MAX_DELTA, prevCaptured |-> FALSE,
      captured |-> FALSE,
      elapsed |-> JumpCooldown, reading |-> Reading(Zero, Zero, 50, TRUE, NoKeys) ]

\* The player's spawn point: api.position.set(0, 5, 0).
PlayerRespawn == <<0, 50, 0>>

-----------------------------------------------------------------------------
(* SoundManager: the sound engine.  An audio node is modelled by whether   *)
(* it exists.  Distances are in tenths of a unit, volumes in tenths,       *)
(* pitches in Hz and gains in units of 10^-4.                              *)

\* What the constructor's init() finds: the audio context and the master
\* gain are created, the context is created and createGain throws, or no
\* AudioContext can be created.
AudioBackends == {"ok", "noGain", "none"}

\* new SoundManager(): enabled is true by default and init() sets it.
createSoundManager(backend) ==
    [ enabled |-> (backend = "ok"),
      ctx |-> (backend # "none"),
      masterGain |-> (backend = "ok"),
      sonarOsc |-> FALSE,
      sonarGain |-> FALSE,
      running |-> 0 ]

setEnabled(sm, val) == [ sm EXCEPT !.enabled = val ]

\* A startSonar without the check for a sonar that is running already.
startSonar_AlwaysCreates(sm) ==
    IF ~sm.enabled \/ ~sm.ctx \/ ~sm.masterGain THEN sm
    ELSE [ sm EXCEPT !.sonarOsc = TRUE, !.sonarGain = TRUE, !.running = @ + 1 ]

\* startSonar creates the oscillator and its gain node and starts the
\* oscillator; running counts the oscillators started and not stopped.
startSonar(sm) ==
    IF ~sm.enabled \/ ~sm.ctx \/ ~sm.masterGain THEN sm
    ELSE IF sm.sonarOsc THEN sm
    ELSE [ sm EXCEPT !.sonarOsc = TRUE, !.sonarGain = TRUE, !.running = @ + 1 ]

stopSonar_KeepsGain(sm) ==
    [ sm EXCEPT !.sonarOsc = FALSE, !.running = IF sm.sonarOsc THEN @ - 1 ELSE @ ]

\* stopSonar stops and drops the oscillator, if there is one, and drops
\* the gain node, if there is one.
stopSonar(sm) ==
    [ sm EXCEPT !.sonarOsc = FALSE, !.sonarGain = FALSE,
                !.running = IF sm.sonarOsc THEN @ - 1 ELSE @ ]

\* The solid tone threshold of updateSonar, 10 units.
SOLID_THRESHOLD == 100

\* The pitch range of the distance modulation, 1200 Hz, and the solid
\* tone's base and range, 1500 Hz and 500 Hz.
PitchRange == 1200
SolidBasePitch == 1500
SolidPitchRange == 500

\* No setTargetAtTime call on the gain or on the frequency.
NoGain == -1
NoPitch == -1

\* The settings updateSonar reads, with the solid tone distance of the
\* settings menu beside them.
AudioSettings(toneVolume, closingVolume, openingVolume, closingMaxDist, openingMaxDist, pitchEnabled, solidDistance) ==
    [ audioToneVolume |-> toneVolume,
      audioClosingVolume |-> closingVolume,
      audioOpeningVolume |-> openingVolume,
      audioClosingMaxDist |-> closingMaxDist,
      audioOpeningMaxDist |-> openingMaxDist,
      audioClosingPitch |-> 300,
      audioOpeningPitch |-> 200,
      audioPitchEnabled |-> pitchEnabled,
      audioSolidDistance |-> solidDistance ]

\* DEFAULT_SETTINGS: tone volume 0.5, closing volume 1, opening volume 0.3,
\* both maximal distances 150 units, dynamic pitch, solid distance 10.
DefaultAudio == AudioSettings(5, 10, 3, 1500, 1500, TRUE, 100)

\* The optional debugMode argument of updateSonar.
NoDebugMode == [ given |-> FALSE, closingEnabled |-> TRUE, openingEnabled |-> TRUE ]

falloff_Linear(distance, maxDist, scale) ==
    IF distance >= maxDist THEN 0
    ELSE ((maxDist - distance) * scale) \div maxDist

\* Math.pow(Math.max(0, 1 - distance / maxDist), 2) as a fraction of `scale`;
\* the squares are taken in square units (hundredths dropped).
falloff(distance, maxDist, scale) ==
    IF distance >= maxDist THEN 0
    ELSE ((((maxDist - distance) * (maxDist - distance)) \div 100) * scale)
         \div ((maxDist * maxDist) \div 100)

\* updateSonar: what it sets on the oscillator and on the gain node.
updateSonar(sm, distance, closingSpeed, settings, debugMode) ==
    LET isClosing == closingSpeed > 0
        maxDist == IF isClosing THEN settings.audioClosingMaxDist
                   ELSE settings.audioOpeningMaxDist
        branchVolume == IF isClosing THEN settings.audioClosingVolume
                        ELSE settings.audioOpeningVolume
        basePitch == IF isClosing THEN settings.audioClosingPitch
                     ELSE settings.audioOpeningPitch
        muted == debugMode.given /\ (IF isClosing THEN ~debugMode.closingEnabled
                                     ELSE ~debugMode.openingEnabled)
        globalMult == IF muted THEN 0 ELSE branchVolume
        called == [ active |-> FALSE, closing |-> isClosing, solid |-> FALSE,
                    gain |-> NoGain, pitch |-> NoPitch,
                    distance |-> distance, settings |-> settings ]
    IN  IF ~sm.enabled \/ ~sm.ctx \/ ~sm.sonarOsc \/ ~sm.sonarGain THEN called
        ELSE IF globalMult <= 0
        THEN [ called EXCEPT !.active = TRUE, !.gain = 0 ]
        ELSE IF distance < SOLID_THRESHOLD
        THEN [ called EXCEPT !.active = TRUE, !.solid = TRUE,
                 !.pitch = SolidBasePitch
                           + ((SOLID_THRESHOLD - distance) * SolidPitchRange) \div SOLID_THRESHOLD,
                 !.gain = settings.audioToneVolume * globalMult * 100 ]
        ELSE [ called EXCEPT !.active = TRUE,
                 !.pitch = IF settings.audioPitchEnabled
                           THEN basePitch + falloff(distance, maxDist, PitchRange)
                           ELSE basePitch,
                 !.gain = falloff(distance, maxDist,
                                  settings.audioToneVolume * globalMult * 100) ]

\* No updateSonar call yet.
NoSonarCmd ==
    [ active |-> FALSE, closing |-> FALSE, solid |-> FALSE, gain |-> NoGain,
      pitch |-> NoPitch, distance |-> 0, settings |-> DefaultAudio ]

\* The sonar effect of the scene, which runs when gameState or isPaused
\* changed: the cleanup of the previous run, then start or stop.
\* A sonar effect that looks at the game state only.
sonarEffect_IgnoresPause(sm, gs, paused, newGs, newPaused) ==
    IF gs = newGs /\ paused = newPaused THEN sm
    ELSE IF newGs = "playing" THEN startSonar(stopSonar(sm))
    ELSE stopSonar(stopSonar(sm))

sonarEffect(sm, gs, paused, newGs, newPaused) ==
    IF gs = newGs /\ paused = newPaused THEN sm
    ELSE IF newGs = "playing" /\ ~newPaused
         THEN startSonar(stopSonar(sm))
         ELSE stopSonar(stopSonar(sm))

\* The scene re-renders after a step that changed gameState or isPaused.
SonarEffect == soundManager' = sonarEffect(soundManager, gameState, isPaused, gameState', isPaused')

-----------------------------------------------------------------------------
(* The session: countdown, its cues and the UI event handlers. *)

\* useState(5): the countdown value of a fresh page and of restartGame.
CountdownStart == 5

\* The cues of the countdown: the beep of each value 1..5, and the go
\* signal under index 0.
GoCue == 0
Cues == 0..CountdownStart

\* No cue method called yet.
NoCues == [ called |-> [c \in Cues |-> 0], sounded |-> [c \in Cues |-> 0] ]

\* playBeep and playGoSignal return before creating an oscillator unless
\* the engine is enabled and has its context and master gain.
sounds(sm) == sm.enabled /\ sm.ctx /\ sm.masterGain

\* A countdown beep that sounds whatever the state of the engine.
playCountdownBeep_AlwaysSounds(c, sm, count) ==
    [ called |-> [c.called EXCEPT ![count] = @ + 1],
      sounded |-> [c.sounded EXCEPT ![count] = @ + 1] ]

\* soundManager.playCountdownBeep(count): a beep if count > 0.
playCountdownBeep(c, sm, count) ==
    [ called |-> [c.called EXCEPT ![count] = @ + 1],
      sounded |-> [c.sounded EXCEPT ![count] = IF count > 0 /\ sounds(sm) THEN @ + 1 ELSE @] ]

\* soundManager.playGoSignal().
playGoSignal(c, sm) ==
    [ called |-> [c.called EXCEPT ![GoCue] = @ + 1],
      sounded |-> [c.sounded EXCEPT ![GoCue] = IF sounds(sm) THEN @ + 1 ELSE @] ]

\* A countdown effect that starts the game at any value.
countdownEffect_IgnoresValue(gs, value, c, sm) ==
    IF gs = "countdown"
    THEN [ gameState |-> "playing", cues |-> playGoSignal(c, sm) ]
    ELSE [ gameState |-> gs, cues |-> c ]

\* The countdown effect of the scene, run after gameState or countdownValue
\* changed: a beep and a one-second timer at a positive value, the go signal
\* and setGameState('playing') at 0.
countdownEffect(gs, value, c, sm) ==
    IF gs = "countdown" /\ value > 0
    THEN [ gameState |-> gs, cues |-> playCountdownBeep(c, sm, value) ]
    ELSE IF gs = "countdown" /\ value = 0
    THEN [ gameState |-> "playing", cues |-> playGoSignal(c, sm) ]
    ELSE [ gameState |-> gs, cues |-> c ]

\* No handler has run on this page.
NoEvent == [ event |-> "none", n |-> 0 ]

\* The handler of the event ran.
Handle(event) == handled' = [ event |-> event, n |-> 1 - handled.n ]

\* GameUI.handleInteract: the pause flag after it.
handleInteract(paused, gs) ==
    IF paused /\ gs \in {"playing", "countdown"} THEN FALSE ELSE paused

-----------------------------------------------------------------------------
(* The player's visual effects.  A particle is its remaining life in units *)
(* of 50 ms; interpolation factors are in thousandths.                     *)

MAX_PARTICLES == 100
BurstSize == 10              \* for (let i = 0; i < 10; i++)
ParticleLife == 20           \* life: 1.0

\* spawnParticles: ten pushes, each only while the list is below the cap.
spawnParticles(ps) ==
    LET room == IF Len(ps) < MAX_PARTICLES THEN MAX_PARTICLES - Len(ps) ELSE 0
    IN  ps \o [i \in 1..Min(BurstSize, room) |-> ParticleLife]

\* A particle update that keeps a particle whose life has just run out.
updateParticles_KeepsDead(ps, delta) ==
    SelectSeq([i \in 1..Len(ps) |-> ps[i] - delta], LAMBDA life : life >= 0)

\* The particle update of a frame: every life is reduced by the frame time
\* and the particles with life left are kept, in order.
updateParticles(ps, delta) ==
    SelectSeq([i \in 1..Len(ps) |-> ps[i] - delta], LAMBDA life : life > 0)

\* The camera delta is capped at 33 ms.
CameraDeltaCap == 33
ExpTerms == 12

\* exp(-x) in units of 10^-5 for x in thousandths: the power series up to
\* the term of order ExpTerms.
RECURSIVE ExpSeries(_, _, _)
ExpSeries(x, k, term) ==
    IF k > ExpTerms THEN 0
    ELSE term + ExpSeries(x, k + 1, DivTrunc(-(term * x), 1000 * k))

ExpNeg(x) == ExpSeries(x, 1, 100000)

\* smoothFactor = 1 - Math.exp(-cameraStiffness * cameraDelta), in
\* thousandths; delta in units of 50 ms.
smoothFactor(cameraStiffness, delta) ==
    LET cameraDelta == Min(Min(delta, MAX_DELTA) * 50, CameraDeltaCap)
    IN  (100000 - ExpNeg(cameraStiffness * cameraDelta)) \div 100

\* adaptiveFactor = smoothFactor * (1 + Math.min(velocityMagnitude / 20, 0.5)).
adaptiveFactor(cameraStiffness, delta, velocity) ==
    (smoothFactor(cameraStiffness, delta) * (1000 + Min(VLen(velocity) * 5, 500))) \div 1000

\* The factors handed to lerp and slerp by a frame in play: camera target,
\* camera position, ball position and orientation.
smoothingFactors(cameraStiffness, delta, velocity) ==
    LET adaptive == adaptiveFactor(cameraStiffness, delta, velocity)
    IN  [ cameraStiffness |-> cameraStiffness,
          camTarget |-> adaptive * 2,
          camPos |-> adaptive,
          ball |-> smoothFactor(cameraStiffness, delta) * 3 ]

\* Before the first frame in play.
NoSmoothing == [ cameraStiffness |-> 0, camTarget |-> 0, camPos |-> 0, ball |-> 0 ]

\* The default camera stiffness, the first stiffness at which a factor
\* passes 1 at 30 frames a second, and the largest the slider allows.
CameraStiffnesses == {3, 13, 50}

-----------------------------------------------------------------------------
(* The frame loop.  Each rendered frame runs the frame callbacks of the    *)
(* mounted components in the order in which the scene mounts them:         *)
(* GameLogic, PlayerSphere, then the enemy.  A callback's steps are named  *)
(* by what they do: "ai" (the AI tick), "motion" (commands to the body),   *)
(* "camera" (camera and visual smoothing) and "audio" (the sonar update).  *)
(* The physics state is ingested by the subscriptions, between frames.     *)

CallbackOrder == <<"GameLogic", "PlayerSphere", "Enemy">>

\* The store setters that publish to the UI.
Setters == {"setPlayerPosition", "setEnemyPosition", "setDebugVelocity"}

\* No call of the setter yet, and no two calls yet.
Never == -1
NoGap == -1

\* Time between publications is kept in units of 50 ms up to PublishedCap.
PublishedCap == 4

NothingPublished == [ since |-> [k \in Setters |-> Never], gap |-> [k \in Setters |-> NoGap] ]

\* The setter k is called.
publish(pub, k) ==
    [ since |-> [pub.since EXCEPT ![k] = 0], gap |-> [pub.gap EXCEPT ![k] = pub.since[k]] ]

\* A frame time of delta passes.
elapse(pub, delta) ==
    [ pub EXCEPT !.since = [k \in Setters |->
                              IF pub.since[k] = Never THEN Never
                              ELSE Min(pub.since[k] + delta, PublishedCap)] ]

\* The place of a callback in the order; 0 before the first frame.
CallbackIndex(cb) ==
    IF cb = "none" THEN 0 ELSE CHOOSE i \in DOMAIN CallbackOrder : CallbackOrder[i] = cb

\* The callback cb ran with these steps: it continues the rendered frame
\* if it comes after the callback that ran last, and begins a new one if not.
Ran(cb, steps) ==
    rendered' = [ last |-> cb,
                  steps |-> IF CallbackIndex(cb) <= CallbackIndex(rendered.last)
                            THEN steps ELSE rendered.steps \o steps ]

\* The steps of a PlayerSphere frame: nothing while paused, the pin in
\* setup and countdown, torque and jump and then the camera in play.
playerSteps(paused, gs) ==
    IF paused THEN <<>>
    ELSE IF gs = "playing" THEN <<"motion", "camera">>
    ELSE IF gs \in {"setup", "countdown"} THEN <<"motion">>
    ELSE <<>>

\* The steps of an EnemySphereV2 frame; ticked: the AI tick block ran.
enemySteps(paused, gs, ticked) ==
    IF paused THEN <<>>
    ELSE IF gs = "playing"
    THEN (IF ticked THEN <<"ai">> ELSE <<>>) \o <<"motion">>
    ELSE IF gs \in {"setup", "countdown"} THEN <<"motion">>
    ELSE <<>>

\* The steps of an EnemySphere frame.
simpleEnemySteps(paused, gs) ==
    IF paused \/ gs # "playing" THEN <<>> ELSE <<"motion">>

-----------------------------------------------------------------------------
(* The state machine as a transition system. *)

\* The state after the page has loaded, with the audio backend as it is.
InitWith(backend) ==
    /\ ai = createAIState
    /\ cachedTarget = Zero
    /\ lastAvoidanceForce = Zero
    /\ force = <<>>
    /\ lastCanSee = FALSE
    /\ sightDistance = 0
    /\ gameState = "start"
    /\ isPaused = FALSE
    /\ useV2AI = TRUE
    /\ currentTime = 0
    /\ lastAIUpdate = 0
    /\ cachedObstacles = 0
    /\ lastCacheUpdate = 0
    /\ enemyBodyPos = SPAWN_POS
    /\ playerBodyPos = PlayerSpawn
    /\ enemyCmd = NoCommands
    /\ bonk = FALSE
    /\ seenFor = 0
    /\ canJump = TRUE
    /\ sinceJump = JumpCooldown
    /\ lastGoodVelocity = Zero
    /\ playerCmd = NoCommands
    /\ torque = <<>>
    /\ impulse = FALSE
    /\ pframe = NoFrame
    /\ soundManager = createSoundManager(backend)
    /\ sonarCmd = NoSonarCmd
    /\ rendered = [ last |-> "none", steps |-> <<>> ]
    /\ lastDistRef = 0
    /\ throttleRef = 0
    /\ raised = FALSE
    /\ lastUIUpdate = 0
    /\ published = NothingPublished
    /\ countdownValue = CountdownStart
    /\ controlsOpen = TRUE
    /\ cues = NoCues
    /\ handled = NoEvent
    /\ particles = <<>>
    /\ smoothing = NoSmoothing

\* The page loaded in a browser that provides Web Audio.
Init == InitWith("ok")

\* A call of updateAIState by any caller, with any inputs.
UpdateAIState ==
    \E playerVisible \in BOOLEAN, playerPos \in PlayerPositions, delta \in Deltas,
       playerVel \in PlayerVelocities, rnd \in Draws :
        /\ ai.stateTimer + delta <= MaxTimer
        /\ ai' = updateAIState(ai, playerVisible, playerPos, delta, playerVel, rnd)
        /\ UNCHANGED <<sessionVars, visualVars>>
        /\ UNCHANGED <<cachedTarget, lastAvoidanceForce, force, sightVars, gameVars, playerVars,
                       audioVars, sceneVars>>

\* A call of getMovementTarget by any caller, with any inputs.
GetMovementTarget ==
    \E enemyPos \in EnemyPositionsOf(ai), playerPos \in PlayerPositions,
       playerVel \in PlayerVelocities :
        /\ ai' = getMovementTarget(ai, enemyPos, playerPos, playerVel).ai
        /\ UNCHANGED <<sessionVars, visualVars>>
        /\ UNCHANGED <<cachedTarget, lastAvoidanceForce, force, sightVars, gameVars, playerVars,
                       audioVars, sceneVars>>

Next == UpdateAIState \/ GetMovementTarget

Spec == Init /\ [][Next]_vars

-----------------------------------------------------------------------------------------------------------------------------------------------------
(* The enemy's frame callback (useFrame) while the game is playing and not *)
(* paused.  On a frame that the throttle lets through, the AI tick block   *)
(* runs first: the state machine update, the movement target and the       *)
(* avoidance force, all cached.  Every frame then applies the movement     *)
(* force computed from the cached values.  Whether a frame is an AI tick   *)
(* is left open here.  The inputs are a small sample: one player position  *)
(* and velocity, one sequence of draws.                                    *)

MovePlayerPositions == {<<100, 5, 0>>}
MovePlayerVelocities == {<<30, 0, 40>>}
MoveDraws == {<<5, 5, 5, 5, 5, 5, 5>>}

\* What the line-of-sight ray hits first among the cached obstacles: nothing
\* within its range, or an obstacle at 5 units.
NoHit == -1
ObstacleHits == {NoHit, 50}

\* Step 2 of the AI tick: the line-of-sight check.  The player is seen when
\* closer than the sight range and no obstacle lies before the player.
lineOfSight(position, playerPos, hit) ==
    LET distToPlayer == VLen(VSub(playerPos, position))
        isOccluded == hit # NoHit /\ hit < distToPlayer
    IN  [ canSee |-> distToPlayer < SightRange /\ ~isOccluded,
          distToPlayer |-> distToPlayer ]

\* Step 5 of the frame: api.applyForce with the cached target and avoidance.
ApplyMovement(a, target, avoidance, position, playerPos) ==
    \E velocity \in EnemyVelocities, grounded \in BOOLEAN,
       enemySpeed \in EnemySpeeds, enemyAirControl \in AirControls :
        force' = enemyForce(a.state, position, velocity, playerPos, target,
                            avoidance, grounded, enemySpeed, enemyAirControl)

\* A frame on which the AI tick block runs.
EnemyFrameTick ==
    \E hit \in ObstacleHits, playerPos \in MovePlayerPositions, delta \in Deltas,
       playerVel \in MovePlayerVelocities, rnd \in MoveDraws,
       position \in EnemyPositionsOf(ai), avoid \in AvoidanceForces :
        LET sight == lineOfSight(position, playerPos, hit)
            updated == updateAIState(ai, sight.canSee, playerPos, delta, playerVel, rnd)
            r == getMovementTarget(updated, position, playerPos, playerVel)
        IN  /\ ai.stateTimer + delta <= MoveMaxTimer
            /\ ai' = r.ai
            /\ cachedTarget' = r.target
            /\ lastAvoidanceForce' = avoid
            /\ lastCanSee' = sight.canSee
            /\ sightDistance' = sight.distToPlayer
            /\ UNCHANGED <<sessionVars, visualVars>>
            /\ UNCHANGED <<gameVars, playerVars, audioVars, logicVars, uiVars>>
            /\ Ran("Enemy", enemySteps(FALSE, "playing", TRUE))
            /\ ApplyMovement(r.ai, r.target, avoid, position, playerPos)

\* A frame between two AI ticks: only the movement application runs.
EnemyFrameNoTick ==
    \E playerPos \in MovePlayerPositions, position \in EnemyPositionsOf(ai) :
        /\ ApplyMovement(ai, cachedTarget, lastAvoidanceForce, position, playerPos)
        /\ UNCHANGED <<sessionVars, visualVars>>
        /\ UNCHANGED <<ai, cachedTarget, lastAvoidanceForce, sightVars, gameVars, playerVars,
                       audioVars, logicVars, uiVars>>
        /\ Ran("Enemy", enemySteps(FALSE, "playing", FALSE))

FrameNext == EnemyFrameTick \/ EnemyFrameNoTick

SpecFrame == Init /\ [][FrameNext]_vars

-----------------------------------------------------------------------------
(* The enemy in the game: the frame callback of the mounted enemy with the *)
(* guards on the pause flag and the game state, the clock, the AI throttle *)
(* with the tick rate the settings provide, the reset below the floor and  *)
(* the collision with the player.  A frame takes a quarter of a second of  *)
(* clock time; the clock runs on while the game is paused.                 *)

\* JavaScript values: undefined, and the number NaN.
Undefined == -1
NaN == -2

\* 1 / x in quarters of a second; 1 / undefined is NaN.
Reciprocal(x) == IF x = Undefined THEN NaN ELSE 4 \div x

\* a > b on numbers: false when either is NaN.
Greater(a, b) == a # NaN /\ b # NaN /\ a > b

\* useSettings().aiTickRate: the context value has no such key.
aiTickRate == Undefined

AI_UPDATE_INTERVAL == Reciprocal(aiTickRate)

FrameTimes == {1}
GamePlayerPositions == {<<100, 5, 0>>}

\* Where the enemy body may be on a frame: at its spawn point, 0.8 and 1.1
\* units from the player, and fallen below the floor.
GameEnemyPositions == {SPAWN_POS, <<100, 5, 8>>, <<100, 5, 11>>, <<0, -210, -150>>}

\* Enemy velocities on a frame: at rest, 5 units/s, and 30 units/s falling.
BodyVelocities == {Zero, <<-40, 0, 30>>, <<300, -50, 0>>}

\* Where the reset puts a fallen enemy: api.position.set(10, 20, 10).
RespawnPoint == <<100, 200, 100>>

\* The frame while the game is in setup or countdown: the body is pinned.
enemyPin(velocity) ==
    [ NoCommands EXCEPT !.velocity = <<0, velocity[2], 0>>, !.angularVelocity = Zero ]

\* The soft velocity cap of a frame in play.
velocityCap(velocity) ==
    IF LenSq(velocity) > MAX_VELOCITY * MAX_VELOCITY
    THEN [ NoCommands EXCEPT !.velocity = << DivTrunc(velocity[1] * 95, 100), velocity[2],
                                            DivTrunc(velocity[3] * 95, 100) >> ]
    ELSE NoCommands

\* The reset of an enemy that fell below the floor, after the commands cmd.
enemyReset(position, cmd) ==
    IF position[2] < ResetFloor
    THEN [ cmd EXCEPT !.position = RespawnPoint, !.velocity = Zero ]
    ELSE cmd

\* dist < 1.1: the enemy touches the player.
inContact(position, playerPos) ==
    DistSq(position, playerPos) < ContactDistance * ContactDistance

\* The player is within the vision distance with nothing before it.
inClearSight(position, playerPos, hit) ==
    /\ DistSq(position, playerPos) < VISION_DISTANCE * VISION_DISTANCE
    /\ (hit = NoHit \/ hit * hit >= DistSq(position, playerPos))

\* The cache update called first on every frame in play: the obstacle list
\* is collected again when more than the interval has passed since the last
\* collection.
updateObstacleCache_Eager(cached, last, t) ==
    IF t - last >= CACHE_UPDATE_INTERVAL - 1
    THEN [ cachedObstacles |-> t, lastCacheUpdate |-> t ]
    ELSE [ cachedObstacles |-> cached, lastCacheUpdate |-> last ]

updateObstacleCache(cached, last, t) ==
    IF t - last > CACHE_UPDATE_INTERVAL
    THEN [ cachedObstacles |-> t, lastCacheUpdate |-> t ]
    ELSE [ cachedObstacles |-> cached, lastCacheUpdate |-> last ]

\* The AI tick block: line of sight, state machine, target, avoidance.
AITick(position, playerPos, playerVel, hit, rnd, avoid, delta) ==
    LET sight == lineOfSight(position, playerPos, hit)
        updated == updateAIState(ai, sight.canSee, playerPos, delta, playerVel, rnd)
        r == getMovementTarget(updated, position, playerPos, playerVel)
    IN  /\ ai' = r.ai
        /\ cachedTarget' = r.target
        /\ lastAvoidanceForce' = avoid
        /\ lastCanSee' = sight.canSee
        /\ sightDistance' = sight.distToPlayer

\* A frame of EnemySphereV2.
EnemySphereV2Frame ==
    \E dt \in FrameTimes, position \in GameEnemyPositions, velocity \in BodyVelocities,
       playerPos \in GamePlayerPositions, playerVel \in MovePlayerVelocities,
       hit \in ObstacleHits, rnd \in MoveDraws, avoid \in AvoidanceForces,
       grounded \in BOOLEAN, enemySpeed \in EnemySpeeds, enemyAirControl \in AirControls :
        /\ useV2AI
        /\ currentTime + dt <= MaxClock
        /\ currentTime' = currentTime + dt
        /\ enemyBodyPos' = position
        /\ playerBodyPos' = playerPos
        /\ UNCHANGED <<sessionVars, visualVars>>
        /\ UNCHANGED <<isPaused, useV2AI, playerVars, sonarCmd, logicVars>>
        /\ IF isPaused \/ gameState # "playing"
           THEN /\ enemyCmd' = IF ~isPaused /\ gameState \in {"setup", "countdown"}
                               THEN enemyPin(velocity) ELSE NoCommands
                /\ bonk' = FALSE
                /\ seenFor' = 0
                /\ UNCHANGED <<ai, cachedTarget, lastAvoidanceForce, force, sightVars,
                               gameState, lastAIUpdate, cacheVars, uiVars>>
           ELSE /\ LET cache == updateObstacleCache(cachedObstacles, lastCacheUpdate,
                                                    currentTime')
                   IN  /\ cachedObstacles' = cache.cachedObstacles
                       /\ lastCacheUpdate' = cache.lastCacheUpdate
                /\ IF Greater(currentTime' - lastAIUpdate, AI_UPDATE_INTERVAL)
                   THEN /\ lastAIUpdate' = currentTime'
                        /\ AITick(position, playerPos, playerVel, hit, rnd, avoid,
                                  AI_UPDATE_INTERVAL)
                        /\ IF currentTime' - lastUIUpdate > UI_UPDATE_INTERVAL
                           THEN /\ lastUIUpdate' = currentTime'
                                /\ published' = publish(published, "setEnemyPosition")
                           ELSE UNCHANGED uiVars
                   ELSE UNCHANGED <<lastAIUpdate, ai, cachedTarget, lastAvoidanceForce,
                                    sightVars, uiVars>>
                /\ force' = enemyForce(ai'.state, position, velocity, playerPos,
                                       cachedTarget', lastAvoidanceForce', grounded,
                                       enemySpeed, enemyAirControl)
                /\ enemyCmd' = enemyReset(position, velocityCap(velocity))
                /\ bonk' = inContact(position, playerPos)
                /\ gameState' = IF inContact(position, playerPos) THEN "gameover" ELSE gameState
                /\ seenFor' = IF inClearSight(position, playerPos, hit)
                               THEN seenFor + dt ELSE 0
        /\ SonarEffect
        /\ Ran("Enemy", enemySteps(isPaused, gameState, lastAIUpdate' # lastAIUpdate))

\* EnemySphere (the simple enemy): the force toward the player position led
\* by min(dist / 10, 2) seconds, times enemySpeed * 2.5.  The force is in
\* units of 10^-4.
simpleEnemyForce(position, playerPos, playerVel, enemySpeed) ==
    LET dist == VLen(VSub(position, playerPos))
        predictionTime == Min(dist, 200)
        predictedPlayerPos == VAdd(playerPos, VDiv(VScale(playerVel, predictionTime), 100))
        direction == NormalizeTimes(VSub(predictedPlayerPos, position), 100)
        speed == enemySpeed * 25
    IN  << direction[1] * speed, 0, direction[3] * speed >>

\* A frame of EnemySphere.
EnemySphereFrame ==
    \E dt \in FrameTimes, position \in GameEnemyPositions,
       playerPos \in GamePlayerPositions, playerVel \in MovePlayerVelocities,
       enemySpeed \in EnemySpeeds :
        /\ ~useV2AI
        /\ currentTime + dt <= MaxClock
        /\ currentTime' = currentTime + dt
        /\ enemyBodyPos' = position
        /\ playerBodyPos' = playerPos
        /\ bonk' = FALSE
        /\ UNCHANGED <<sessionVars, visualVars>>
        /\ UNCHANGED <<ai, cachedTarget, lastAvoidanceForce, sightVars, isPaused, useV2AI,
                       lastAIUpdate, seenFor, cacheVars, playerVars, sonarCmd, logicVars,
                       uiVars>>
        /\ Ran("Enemy", simpleEnemySteps(isPaused, gameState))
        /\ IF isPaused \/ gameState # "playing"
           THEN /\ enemyCmd' = NoCommands
                /\ UNCHANGED <<force, gameState>>
           ELSE /\ force' = simpleEnemyForce(position, playerPos, playerVel, enemySpeed)
                /\ enemyCmd' = enemyReset(position, NoCommands)
                /\ gameState' = IF inContact(position, playerPos) THEN "gameover" ELSE gameState
        /\ SonarEffect

\* The settings menu switches between the two enemies: the other component
\* is mounted, with fresh refs and a body at the spawn point.
SetUseV2AI ==
    /\ useV2AI' = ~useV2AI
    /\ ai' = createAIState
    /\ cachedTarget' = Zero
    /\ lastAvoidanceForce' = Zero
    /\ force' = <<>>
    /\ lastCanSee' = FALSE
    /\ sightDistance' = 0
    /\ lastAIUpdate' = 0
    /\ lastUIUpdate' = 0
    /\ cachedObstacles' = currentTime
    /\ lastCacheUpdate' = 0
    /\ enemyBodyPos' = SPAWN_POS
    /\ enemyCmd' = NoCommands
    /\ bonk' = FALSE
    /\ seenFor' = 0
    /\ UNCHANGED <<sessionVars, visualVars>>
    /\ UNCHANGED <<gameState, isPaused, currentTime, playerBodyPos, playerVars, audioVars,
                   rendered, logicVars, published>>

\* The pause flag is set and cleared by the settings menu, the Escape key,
\* window blur and any interaction.
SetIsPaused ==
    /\ isPaused' = ~isPaused
    /\ UNCHANGED <<sessionVars, visualVars>>
    /\ UNCHANGED <<ai, cachedTarget, lastAvoidanceForce, force, sightVars, gameState,
                   useV2AI, currentTime, lastAIUpdate, enemyBodyPos, playerBodyPos,
                   enemyCmd, bonk, seenFor, cacheVars, playerVars, sonarCmd, sceneVars>>
    /\ SonarEffect

\* The game flow outside the enemy: the scene leaves 'start' for 'setup',
\* the space key or the start button starts the countdown, and the
\* countdown ends in 'playing'.
GameFlow ==
    /\ \/ gameState = "start" /\ gameState' = "setup"
       \/ gameState = "setup" /\ gameState' = "countdown"
       \/ gameState = "countdown" /\ gameState' = "playing"
    /\ UNCHANGED <<sessionVars, visualVars>>
    /\ UNCHANGED <<ai, cachedTarget, lastAvoidanceForce, force, sightVars, isPaused,
                   useV2AI, currentTime, lastAIUpdate, enemyBodyPos, playerBodyPos,
                   enemyCmd, bonk, seenFor, cacheVars, playerVars, sonarCmd, sceneVars>>
    /\ SonarEffect

GameNext ==
    \/ EnemySphereV2Frame
    \/ EnemySphereFrame
    \/ SetUseV2AI
    \/ SetIsPaused
    \/ GameFlow

SpecGame == Init /\ [][GameNext]_vars

-----------------------------------------------------------------------------
(* The player in the game: the frame callback of PlayerSphere and the      *)
(* timeout that ends the jump cooldown.                                    *)

\* The torque commanded by the held keys.
keyTorque(keys, torqueAmount) ==
    << (IF keys.s THEN torqueAmount ELSE 0) - (IF keys.w THEN torqueAmount ELSE 0),
       0,
       (IF keys.a THEN torqueAmount ELSE 0) - (IF keys.d THEN torqueAmount ELSE 0) >>

\* Direction-change boost: a torque opposing the angular velocity (alignment
\* below -0.3, in units of 10^-4) at more than 2 rad/s is scaled by
\* mapLinear(alignment, -1, -0.3, 5, 2), in thousandths.
directionBoost(t, angularVelocity) ==
    IF LenSq(t) > 0 /\ LenSq(angularVelocity) > BoostMinSpeed * BoostMinSpeed
    THEN LET alignment == Dot(NormalizeTimes(t, 100), NormalizeTimes(angularVelocity, 100))
             boostFactor == 5000 - DivTrunc((alignment + 10000) * 3000, 7000)
         IN  IF alignment < -3000 THEN VDiv(VScale(t, boostFactor), 1000) ELSE t
    ELSE t

\* torque.multiplyScalar(controlMultiplier).
airControl(t, grounded, playerAirControl) ==
    IF grounded THEN t ELSE VDiv(VScale(t, playerAirControl), 10)

\* Braking: with no torque left and the ball on the ground, a counter-torque
\* on the x and z axes.
braking(t, angularVelocity, grounded) ==
    IF LenSq(t) = 0 /\ grounded /\ LenSq(angularVelocity) > BrakeMinSpeed * BrakeMinSpeed
    THEN << -angularVelocity[1] * brakeForce, t[2], -angularVelocity[3] * brakeForce >>
    ELSE t

\* The torque handed to api.applyTorque.
playerTorque(keys, angularVelocity, grounded, moveSpeed, playerAirControl) ==
    braking(airControl(directionBoost(keyTorque(keys, moveSpeed), angularVelocity),
                       grounded, playerAirControl),
            angularVelocity, grounded)

\* A jump that ignores the cooldown.
jumps_IgnoresCooldown(keys, jumpReady, grounded) == keys.space /\ grounded

\* The jump condition.
jumps(keys, jumpReady, grounded) == keys.space /\ jumpReady /\ grounded

\* Hitch recovery: the velocity command of a hitch frame, if any.
hitchRestore(isHitch, lastGood, velocity) ==
    IF isHitch /\ lastGood[1] # 0
    THEN <<lastGood[1], velocity[2], lastGood[3]>>
    ELSE NoCommand

\* The reset of a player that fell below the floor, after the commands cmd.
playerReset(height, cmd) ==
    IF height < ResetFloor
    THEN [ position |-> PlayerRespawn, velocity |-> Zero, angularVelocity |-> Zero ]
    ELSE cmd

\* A frame of PlayerSphere, its visual effects left open: the inactivity
\* pause, the commands to the body and the jump.  A cooldown timeout that
\* came due during the frame time may have run before the callback
\* (timerRan).
PlayerMovementOf(delta, r, idleLong, timerRan, moveSpeed, playerAirControl) ==
        LET isHitch == delta > MAX_DELTA
            elapsed == Min(sinceJump + delta, JumpCooldown)
            jumpReady == canJump \/ (timerRan /\ elapsed >= JumpCooldown)
            restored == hitchRestore(isHitch, lastGoodVelocity, r.velocity)
            inPlay == ~isPaused /\ gameState = "playing"
            jumping == inPlay /\ jumps(r.keys, jumpReady, r.grounded)
        IN  /\ isPaused' = (isPaused \/ idleLong)
            /\ lastGoodVelocity' = IF ~isPaused /\ ~isHitch THEN r.velocity
                                    ELSE lastGoodVelocity
            /\ pframe' = [ inPlay |-> inPlay, hitch |-> isHitch, delta |-> delta,
                           prevCaptured |-> pframe.captured,
                           captured |-> (~isPaused /\ ~isHitch),
                           elapsed |-> elapsed,
                           reading |-> IF isPaused THEN NoFrame.reading ELSE r ]
            /\ playerCmd' =
                 IF isPaused THEN NoCommands
                 ELSE IF gameState # "playing"
                 THEN IF gameState \in {"setup", "countdown"}
                      THEN [ NoCommands EXCEPT !.velocity = <<0, r.velocity[2], 0>>,
                                              !.angularVelocity = Zero ]
                      ELSE [ NoCommands EXCEPT !.velocity = restored ]
                 ELSE playerReset(r.y, [ NoCommands EXCEPT !.velocity = restored ])
            /\ torque' = IF inPlay
                         THEN playerTorque(r.keys, r.angularVelocity, r.grounded,
                                           moveSpeed, playerAirControl)
                         ELSE <<>>
            /\ impulse' = jumping
            /\ canJump' = (jumpReady /\ ~jumping)
            /\ sinceJump' = IF jumping THEN 0 ELSE elapsed
            /\ UNCHANGED sessionVars
            /\ UNCHANGED <<ai, cachedTarget, lastAvoidanceForce, force, sightVars, gameState,
                           useV2AI, currentTime, lastAIUpdate, enemyBodyPos, playerBodyPos,
                           enemyCmd, bonk, seenFor, cacheVars, sonarCmd, logicVars,
                           uiVars>>
            /\ SonarEffect
            /\ Ran("PlayerSphere", playerSteps(isPaused, gameState))

\* The frame on any frame time, reading, idle time, timer order and settings.
PlayerMovement ==
    \E delta \in PlayerDeltas, r \in PlayerReadings, idleLong \in BOOLEAN, timerRan \in BOOLEAN,
       moveSpeed \in MoveSpeeds, playerAirControl \in PlayerAirControls :
        PlayerMovementOf(delta, r, idleLong, timerRan, moveSpeed, playerAirControl)

\* The particles of the frame that PlayerMovement describes: in play, the
\* particles of a jump are spawned and the particles are updated with the
\* frame time.
PlayerParticles ==
    particles' = IF pframe'.inPlay
                 THEN updateParticles(IF impulse' THEN spawnParticles(particles)
                                      ELSE particles, pframe'.delta)
                 ELSE particles

\* The smoothing of the frame that PlayerMovement describes: in play, the
\* camera and the ball are smoothed, with the camera stiffness of the
\* settings.
PlayerSmoothing ==
    \E cameraStiffness \in CameraStiffnesses :
        smoothing' = IF pframe'.inPlay
                     THEN smoothingFactors(cameraStiffness, pframe'.delta,
                                           pframe'.reading.velocity)
                     ELSE smoothing

\* The visual effects of the frame.
PlayerVisuals == PlayerParticles /\ PlayerSmoothing

\* The frame as the game around the player sees it: the visual effects,
\* which nothing else reads, are not followed.
PlayerFrame == PlayerMovement /\ UNCHANGED visualVars

\* The timeout of the jump cooldown: 500 ms after the jump.
JumpTimeout ==
    /\ ~canJump
    /\ sinceJump >= JumpCooldown
    /\ canJump' = TRUE
    /\ UNCHANGED <<sessionVars, visualVars>>
    /\ UNCHANGED <<ai, cachedTarget, lastAvoidanceForce, force, sightVars, gameVars,
                   sinceJump, lastGoodVelocity, playerCmd, torque, impulse, pframe, audioVars,
                   sceneVars>>

PlayerNext ==
    \/ PlayerFrame
    \/ JumpTimeout
    \/ SetIsPaused
    \/ GameFlow

\* Frames keep coming and a due timeout runs.
SpecPlayer ==
    Init /\ [][PlayerNext]_vars /\ WF_vars(PlayerFrame) /\ WF_vars(JumpTimeout)

-----------------------------------------------------------------------------
(* The sound engine's sonar interface under any caller: startSonar,        *)
(* stopSonar, setEnabled and updateSonar with any distance, closing speed  *)
(* and settings.                                                           *)

\* Distances from 0 to 160 units, on both sides of the solid threshold and
\* of the maximal distances of the settings below.
SonarDistances == {0, 50, 99, 100, 150, 199, 200, 400, 500, 1000, 1500, 1600}

\* Closing speeds: opening, still and closing.
ClosingSpeeds == {-10, 0, 10}

\* The default settings; a closing range of 50 and an opening range of 20
\* units with the opening branch silent and a solid tone distance of 20
\* units; and the defaults without dynamic pitch.
SonarSettings ==
    { DefaultAudio,
      AudioSettings(10, 20, 0, 500, 200, TRUE, 200),
      AudioSettings(5, 10, 3, 1500, 1500, FALSE, 100) }

\* The only caller of updateSonar passes no debugMode.
DebugModes == {NoDebugMode}

StartSonar ==
    /\ soundManager' = startSonar(soundManager)
    /\ UNCHANGED <<sessionVars, visualVars>>
    /\ UNCHANGED <<ai, cachedTarget, lastAvoidanceForce, force, sightVars, gameVars,
                   playerVars, sonarCmd, sceneVars>>

StopSonar ==
    /\ soundManager' = stopSonar(soundManager)
    /\ UNCHANGED <<sessionVars, visualVars>>
    /\ UNCHANGED <<ai, cachedTarget, lastAvoidanceForce, force, sightVars, gameVars,
                   playerVars, sonarCmd, sceneVars>>

\* setSoundEnabled of the settings: soundManager.setEnabled(val).
SetEnabled ==
    \E val \in BOOLEAN :
        /\ soundManager' = setEnabled(soundManager, val)
        /\ UNCHANGED <<sessionVars, visualVars>>
        /\ UNCHANGED <<ai, cachedTarget, lastAvoidanceForce, force, sightVars, gameVars,
                       playerVars, sonarCmd, sceneVars>>

UpdateSonar ==
    \E distance \in SonarDistances, closingSpeed \in ClosingSpeeds,
       settings \in SonarSettings, debugMode \in DebugModes :
        /\ sonarCmd' = updateSonar(soundManager, distance, closingSpeed, settings, debugMode)
        /\ UNCHANGED <<sessionVars, visualVars>>
        /\ UNCHANGED <<ai, cachedTarget, lastAvoidanceForce, force, sightVars, gameVars,
                       playerVars, soundManager, sceneVars>>

SonarNext == StartSonar \/ StopSonar \/ SetEnabled \/ UpdateSonar

SpecSonar == Init /\ [][SonarNext]_vars

-----------------------------------------------------------------------------
(* The scene: GameLogic, PlayerSphere and the enemy mounted in one canvas, *)
(* their frame callbacks run by the frame loop in mount order, and between *)
(* frames the events of the page: the pause flag, the game flow, the       *)
(* position stream of the physics world, the settings menu, the restart.   *)
(* The audio backend is there, or is not there at all.  The enemy is       *)
(* EnemySphereV2, as the default settings have it.                         *)

\* The methods of the SoundManager class.
SoundManagerMethods ==
    { "init", "setEnabled", "setMasterVolume", "resume", "playBeep", "playCountdownBeep",
      "playGoSignal", "playTagSound", "playAlertSound", "playLostSound", "playBonkSound",
      "playPing", "startSonar", "stopSonar", "updateSonar" }

\* Calling a method that the object does not have is a TypeError.
Raises(method) == method \notin SoundManagerMethods

\* Frame times handed to GameLogic: 50 ms and 100 ms.
LogicDeltas == {1, 2}

\* The frame callback of GameLogic.  In play it updates the sonar with the
\* distance and the closing speed (tenths per second), then the audio
\* listener, then publishes the closing speed once more than 0.2 s of
\* frame time have accumulated, then stores the distance.
GameLogicFrame ==
    \E delta \in LogicDeltas, settings \in SonarSettings :
        LET dist == VLen(VSub(playerBodyPos, enemyBodyPos))
            closingSpeed == DivTrunc((lastDistRef - dist) * 20, delta)
            throws == Raises("updateListener")
            throttle == throttleRef + delta
            pub == elapse(published, delta)
        IN  /\ IF gameState # "playing"
               THEN /\ raised' = FALSE
                    /\ published' = pub
                    /\ Ran("GameLogic", <<>>)
                    /\ UNCHANGED <<sonarCmd, lastDistRef, throttleRef>>
               ELSE /\ sonarCmd' = updateSonar(soundManager, dist, closingSpeed, settings,
                                               NoDebugMode)
                    /\ raised' = throws
                    /\ Ran("GameLogic", <<"audio">>)
                    /\ IF throws
                       THEN /\ published' = pub
                            /\ UNCHANGED <<lastDistRef, throttleRef>>
                       ELSE /\ throttleRef' = IF throttle > LogicThrottle THEN 0 ELSE throttle
                            /\ published' = IF throttle > LogicThrottle
                                            THEN publish(pub, "setDebugVelocity") ELSE pub
                            /\ lastDistRef' = dist
            /\ UNCHANGED <<sessionVars, visualVars>>
            /\ UNCHANGED <<ai, cachedTarget, lastAvoidanceForce, force, sightVars, gameVars,
                           playerVars, soundManager, lastUIUpdate>>

\* The physics world has stepped since the position was last streamed: it
\* is not paused, and a frame has passed.
PositionDue ==
    /\ ~(isPaused \/ gameState = "gameover")
    /\ published.since["setPlayerPosition"] # 0

\* The position subscription of PlayerSphere: the physics world, stepped
\* once per frame unless it is paused, streams the position of the body;
\* the callback stores it and publishes it.
PlayerPositionEvent ==
    \E p \in GamePlayerPositions :
        /\ PositionDue
        /\ playerBodyPos' = p
        /\ published' = publish(published, "setPlayerPosition")
        /\ UNCHANGED <<sessionVars, visualVars>>
        /\ UNCHANGED <<ai, cachedTarget, lastAvoidanceForce, force, sightVars, gameState,
                       isPaused, useV2AI, currentTime, lastAIUpdate, enemyBodyPos, enemyCmd,
                       bonk, seenFor, cacheVars, playerVars, audioVars, rendered, logicVars,
                       lastUIUpdate>>

\* restartGame, offered by the game-over screen: the page is loaded again.
RestartGame ==
    /\ gameState = "gameover"
    /\ \E backend \in AudioBackends :
          /\ ai' = createAIState
          /\ cachedTarget' = Zero
          /\ lastAvoidanceForce' = Zero
          /\ force' = <<>>
          /\ lastCanSee' = FALSE
          /\ sightDistance' = 0
          /\ gameState' = "start"
          /\ isPaused' = FALSE
          /\ useV2AI' = TRUE
          /\ currentTime' = 0
          /\ lastAIUpdate' = 0
          /\ cachedObstacles' = 0
          /\ lastCacheUpdate' = 0
          /\ enemyBodyPos' = SPAWN_POS
          /\ playerBodyPos' = PlayerSpawn
          /\ enemyCmd' = NoCommands
          /\ bonk' = FALSE
          /\ seenFor' = 0
          /\ canJump' = TRUE
          /\ sinceJump' = JumpCooldown
          /\ lastGoodVelocity' = Zero
          /\ playerCmd' = NoCommands
          /\ torque' = <<>>
          /\ impulse' = FALSE
          /\ pframe' = NoFrame
          /\ soundManager' = createSoundManager(backend)
          /\ sonarCmd' = NoSonarCmd
          /\ rendered' = [ last |-> "none", steps |-> <<>> ]
          /\ lastDistRef' = 0
          /\ throttleRef' = 0
          /\ raised' = FALSE
          /\ lastUIUpdate' = 0
          /\ published' = NothingPublished
          /\ countdownValue' = CountdownStart
          /\ controlsOpen' = controlsOpen
          /\ cues' = NoCues
          /\ handled' = NoEvent
          /\ particles' = <<>>
          /\ smoothing' = NoSmoothing

\* The audio backend in the scene: there, or not there at all.
SceneBackends == {"ok", "none"}

\* The callback that the frame loop runs next.
NextCallback ==
    IF rendered.last \in {"none", "Enemy"} THEN "GameLogic"
    ELSE CallbackOrder[CallbackIndex(rendered.last) + 1]

\* The GameLogic callback threw: the exception leaves the frame loop, which
\* is the renderer's.  Both are allowed here: the frame is over, or the
\* loop goes on with the callbacks mounted after GameLogic.
FrameBroken == raised /\ rendered.last = "GameLogic"

\* The callback cb may run now.  A frame begins when the position of the
\* last physics step has arrived.
MayRun(cb) ==
    IF cb = "GameLogic"
    THEN (NextCallback = "GameLogic" \/ FrameBroken) /\ ~PositionDue
    ELSE cb = NextCallback

\* Events of the page are handled between two frames.
BetweenFrames == NextCallback = "GameLogic" \/ FrameBroken

\* The player in the scene: rolling with the forward key held, on regular
\* frames.
ScenePlayerReadings ==
    { NoFrame.reading,
      Reading(<<30, -10, 40>>, <<30, 0, 0>>, 5, TRUE, KeyW) }

\* The enemy in the scene: at its spawn point or touching the player, and
\* commanded at most the pin of a body at rest.
SceneEnemyPositions == {SPAWN_POS, <<100, 5, 8>>}
SceneEnemyCommands == {NoCommands, enemyPin(Zero)}

\* The scene runs with the default audio settings, on regular frames.
SceneGameLogic ==
    /\ MayRun("GameLogic")
    /\ GameLogicFrame
    /\ sonarCmd'.settings = DefaultAudio
    /\ published' = elapse(published, MAX_DELTA)

ScenePlayerSphere ==
    /\ MayRun("PlayerSphere")
    /\ PlayerFrame
    /\ pframe'.reading \in ScenePlayerReadings
    /\ ~pframe'.hitch

SceneEnemySphereV2 ==
    /\ MayRun("Enemy")
    /\ EnemySphereV2Frame
    /\ enemyBodyPos' \in SceneEnemyPositions
    /\ enemyCmd' \in SceneEnemyCommands
    /\ currentTime' <= SceneMaxClock

SceneSetIsPaused == BetweenFrames /\ SetIsPaused
SceneGameFlow == BetweenFrames /\ GameFlow
SceneSetEnabled == BetweenFrames /\ SetEnabled
ScenePosition == BetweenFrames /\ PlayerPositionEvent
SceneRestart ==
    /\ BetweenFrames
    /\ RestartGame
    /\ soundManager' \in {createSoundManager(backend) : backend \in SceneBackends}

SceneNext ==
    \/ SceneGameLogic
    \/ ScenePlayerSphere
    \/ SceneEnemySphereV2
    \/ SceneSetIsPaused
    \/ SceneGameFlow
    \/ SceneSetEnabled
    \/ ScenePosition
    \/ SceneRestart

InitScene == \E backend \in SceneBackends : InitWith(backend)

SpecScene == InitScene /\ [][SceneNext]_vars

-----------------------------------------------------------------------------
(* The session: the handlers of GameUI and of the settings menu, the start *)
(* effect and the countdown of the scene, around the frames of the player  *)
(* and the enemy.  An effect is taken together with the state change that  *)
(* triggers it.                                                            *)

\* What the handlers and the timers of the session leave alone.
frameVars ==
    <<ai, cachedTarget, lastAvoidanceForce, force, sightVars, useV2AI,
      currentTime, lastAIUpdate,
      enemyBodyPos, playerBodyPos, enemyCmd, bonk, seenFor, cacheVars,
      playerVars, sonarCmd, sceneVars, visualVars>>

\* The scene's effect on 'start': setGameState('setup').
StartEffect ==
    /\ gameState = "start"
    /\ gameState' = "setup"
    /\ UNCHANGED <<frameVars, isPaused, sessionVars>>
    /\ SonarEffect

\* The countdown effect after a change of gameState or countdownValue to
\* the values gs and value.
CountdownEffect(gs, value) ==
    LET after == countdownEffect(gs, value, cues, soundManager)
    IN  /\ gameState' = after.gameState
        /\ cues' = after.cues

\* The one-second timer of the countdown effect: setCountdownValue(
\* countdownValue - 1).  The effect is cleaned up and run again only when
\* gameState or countdownValue changes, so a timer is pending exactly in
\* 'countdown' at a positive value.
CountdownTimer ==
    /\ gameState = "countdown"
    /\ countdownValue > 0
    /\ countdownValue' = countdownValue - 1
    /\ CountdownEffect(gameState, countdownValue - 1)
    /\ UNCHANGED <<frameVars, isPaused, controlsOpen, handled>>
    /\ SonarEffect

\* GameUI.handleKeyDown with the Escape key.
HandleKeyDown ==
    /\ Handle("escape")
    /\ isPaused' = IF gameState \in {"playing", "countdown"} THEN ~isPaused ELSE isPaused
    /\ UNCHANGED <<frameVars, gameState, countdownValue, controlsOpen, cues>>
    /\ SonarEffect

\* GameUI.handleInteract on mousedown.
HandleInteract ==
    /\ Handle("mousedown")
    /\ isPaused' = handleInteract(isPaused, gameState)
    /\ UNCHANGED <<frameVars, gameState, countdownValue, controlsOpen, cues>>
    /\ SonarEffect

\* GameUI.handleSpaceKey with the Space key.
HandleSpaceKey ==
    \/ /\ isPaused
       /\ Handle("space")
       /\ isPaused' = handleInteract(isPaused, gameState)
       /\ UNCHANGED <<frameVars, gameState, countdownValue, controlsOpen, cues>>
       /\ SonarEffect
    \/ /\ ~isPaused
       /\ gameState = "gameover"
       /\ RestartGame
    \/ /\ ~isPaused
       /\ gameState = "setup"
       /\ Handle("space")
       /\ CountdownEffect("countdown", countdownValue)
       /\ UNCHANGED <<frameVars, isPaused, countdownValue, controlsOpen>>
       /\ SonarEffect
    \/ /\ ~isPaused
       /\ gameState \notin {"gameover", "setup"}
       /\ Handle("space")
       /\ UNCHANGED <<frameVars, gameState, isPaused, countdownValue, controlsOpen, cues>>
       /\ SonarEffect

\* GameUI.handleBlur.
HandleBlur ==
    /\ Handle("blur")
    /\ isPaused' = IF gameState \in {"playing", "countdown"} THEN TRUE ELSE isPaused
    /\ UNCHANGED <<frameVars, gameState, countdownValue, controlsOpen, cues>>
    /\ SonarEffect

\* The button of the start screen, shown in 'setup': setGameState('countdown').
OnStart ==
    /\ gameState = "setup"
    /\ Handle("startButton")
    /\ CountdownEffect("countdown", countdownValue)
    /\ UNCHANGED <<frameVars, isPaused, countdownValue, controlsOpen>>
    /\ SonarEffect

\* SettingsMenu.toggleSettings.
ToggleSettings ==
    /\ Handle("toggleSettings")
    /\ controlsOpen' = ~controlsOpen
    /\ isPaused' = ~controlsOpen
    /\ UNCHANGED <<frameVars, gameState, countdownValue, cues>>
    /\ SonarEffect

\* Of the frames, the session follows those that change the session state:
\* a frame of the player, at rest in setup, that sets the pause flag after
\* ten seconds without input, and a frame of the enemy that tags the player.
SessionPlayerReadings == {Reading(Zero, Zero, 5, TRUE, NoKeys)}

SessionPlayerSphere ==
    \E r \in SessionPlayerReadings, timerRan \in BOOLEAN,
       moveSpeed \in MoveSpeeds, playerAirControl \in PlayerAirControls :
        /\ gameState = "setup"
        /\ PlayerMovementOf(MAX_DELTA, r, TRUE, timerRan, moveSpeed, playerAirControl)
        /\ UNCHANGED visualVars
        /\ isPaused' # isPaused

SessionEnemySphereV2 ==
    /\ EnemySphereV2Frame
    /\ enemyCmd' \in SceneEnemyCommands
    /\ gameState' # gameState

\* The restart button of the game over screen or the Space key, and the
\* reload it ends in.
SessionRestart ==
    /\ RestartGame
    /\ soundManager' = createSoundManager("ok")

\* The Space key where it does not restart the game.
SessionSpaceKey ==
    /\ HandleSpaceKey
    /\ handled' # NoEvent

SessionNext ==
    \/ StartEffect
    \/ CountdownTimer
    \/ HandleKeyDown
    \/ HandleInteract
    \/ SessionSpaceKey
    \/ HandleBlur
    \/ OnStart
    \/ ToggleSettings
    \/ SetEnabled
    \/ SessionPlayerSphere
    \/ SessionEnemySphereV2
    \/ SessionRestart

\* A pending countdown timer expires.
SpecSession == Init /\ [][SessionNext]_vars /\ WF_vars(CountdownTimer)

-----------------------------------------------------------------------------
(* The player's frame with its visual effects.  The player holds the jump  *)
(* key on the ground, on regular frames; the game is paused right after a *)
(* jump and resumed once the cooldown is over, or never.                   *)

VisualsPlayerReadings == { Reading(Zero, Zero, 5, TRUE, KeySpace) }

VisualsPlayerSphere ==
    \E r \in VisualsPlayerReadings, timerRan \in BOOLEAN,
       moveSpeed \in MoveSpeeds, playerAirControl \in PlayerAirControls :
        /\ PlayerMovementOf(MAX_DELTA, r, FALSE, timerRan, moveSpeed, playerAirControl)
        /\ PlayerVisuals

VisualsSetIsPaused ==
    /\ SetIsPaused
    /\ IF isPaused THEN canJump ELSE impulse

VisualsNext ==
    \/ VisualsPlayerSphere
    \/ JumpTimeout
    \/ VisualsSetIsPaused
    \/ GameFlow

SpecVisuals == Init /\ [][VisualsNext]_vars

\* The same frames with the particles alone: the smoothing, which the
\* particles do not read, is not followed.
ParticlesPlayerSphere ==
    \E r \in VisualsPlayerReadings, timerRan \in BOOLEAN,
       moveSpeed \in MoveSpeeds, playerAirControl \in PlayerAirControls :
        /\ PlayerMovementOf(MAX_DELTA, r, FALSE, timerRan, moveSpeed, playerAirControl)
        /\ PlayerParticles
        /\ UNCHANGED smoothing

ParticlesNext ==
    \/ ParticlesPlayerSphere
    \/ JumpTimeout
    \/ VisualsSetIsPaused
    \/ GameFlow

\* Frames keep coming and a due timeout runs.
SpecParticles ==
    Init /\ [][ParticlesNext]_vars /\ WF_vars(ParticlesPlayerSphere) /\ WF_vars(JumpTimeout)

-----------------------------------------------------------------------------
(* Properties of the state machine. *)

\* The result of one updateAIState call on the current state.
AfterUpdate(playerVisible, playerPos, delta, playerVel, rnd) ==
    updateAIState(ai, playerVisible, playerPos, delta, playerVel, rnd)

WaypointsValid(a) ==
    /\ Len(a.searchWaypoints) = 4
    /\ a.currentWaypointIndex >= 0
    /\ a.currentWaypointIndex < Len(a.searchWaypoints)

\* C1: once the AI state has left idle, no step ever returns it to idle.
C1_Theorem == [][ai.state # "idle" => ai'.state # "idle"]_vars

\* A search that was held for almost the full search duration without
\* regaining visibility.
C1_Witness == ai.state = "search" /\ ai.stateTimer = SEARCH_DURATION - 1

\* C2: in alert with the player visible, a tick whose accumulated time is
\* still below the dwell keeps alert (the timer holding the accumulated
\* time), and a tick at which it reaches the dwell switches to chase and
\* resets the timer.
C2_Theorem ==
    ai.state = "alert" =>
        \A playerPos \in PlayerPositions, delta \in Deltas,
           playerVel \in PlayerVelocities, rnd \in Draws :
            LET n == AfterUpdate(TRUE, playerPos, delta, playerVel, rnd)
            IN  IF ai.stateTimer + delta < ALERT_DURATION
                THEN n.state = "alert" /\ n.stateTimer = ai.stateTimer + delta
                ELSE n.state = "chase" /\ n.stateTimer = 0

\* Alert, one visible tick after it was entered, the dwell not yet elapsed.
C2_Witness ==
    ai.state = "alert" /\ ai.stateTimer > 0 /\ ai.stateTimer < ALERT_DURATION

\* C3: in search there are exactly 4 waypoints and the index is within
\* them, and that stays so in every later state, whatever is called.
C3_Theorem ==
    /\ [](ai.state = "search" => WaypointsValid(ai))
    /\ [][WaypointsValid(ai) => WaypointsValid(ai')]_vars

\* Chase regained after a search in which the index had been advanced.
C3_Witness ==
    ai.state = "chase" /\ Len(ai.searchWaypoints) = 4 /\ ai.currentWaypointIndex = 3

\* C4: while the AI is idle and the player is not visible, an update leaves
\* it idle, the movement target is the enemy's own position, and the force
\* applied on the frame is zero.
C4_Theorem ==
    ai.state = "idle" =>
        /\ force \in {<<>>, Zero}
        /\ \A playerPos \in PlayerPositions, delta \in Deltas,
              playerVel \in PlayerVelocities, rnd \in Draws :
               AfterUpdate(FALSE, playerPos, delta, playerVel, rnd).state = "idle"
        /\ \A enemyPos \in EnemyPositionsOf(ai), playerPos \in PlayerPositions,
              playerVel \in PlayerVelocities :
               getMovementTarget(ai, enemyPos, playerPos, playerVel).target = enemyPos

\* An idle enemy after an AI tick without visibility, its force applied.
C4_Witness == ai.state = "idle" /\ ai.stateTimer > 0 /\ force = Zero

\* C5: from idle, an update with the player visible enters alert, resets
\* the timer and records the player position.
C5_Theorem ==
    ai.state = "idle" =>
        \A playerPos \in PlayerPositions, delta \in Deltas,
           playerVel \in PlayerVelocities, rnd \in Draws :
            LET n == AfterUpdate(TRUE, playerPos, delta, playerVel, rnd)
            IN  /\ n.state = "alert"
                /\ n.stateTimer = 0
                /\ n.lastKnownPlayerPos = playerPos

\* Alert just entered from idle: nothing searched yet, the position recorded.
C5_Witness ==
    /\ ai.state = "alert"
    /\ ai.stateTimer = 0
    /\ ai.lastKnownPlayerPos \in PlayerPositions
    /\ ai.searchWaypoints = <<>>

\* C6: from alert, an update with the player not visible enters search on
\* that tick whatever the timer, resets the timer, and generates the
\* waypoints from the last-known position and the player velocity.
C6_Theorem ==
    ai.state = "alert" =>
        \A playerPos \in PlayerPositions, delta \in Deltas,
           playerVel \in PlayerVelocities, rnd \in Draws :
            LET n == AfterUpdate(FALSE, playerPos, delta, playerVel, rnd)
            IN  /\ n.state = "search"
                /\ n.stateTimer = 0
                /\ Len(n.searchWaypoints) = 4
                /\ n.searchWaypoints =
                       generateSearchWaypoints(ai.lastKnownPlayerPos, playerVel,
                                               rnd[3], rnd[4], rnd[5], rnd[6], rnd[7])

\* A search entered from alert on a tick on which the player had moved: the
\* spiral is centred on the position known before that tick.
C6_Witness ==
    /\ ai.state = "search"
    /\ \E p \in PlayerPositions \ {ai.lastKnownPlayerPos}, r \in RandomValues :
           ai.searchWaypoints[2] = VAdd(p, spiralOffset(1, r))

\* C7: from chase, an update with the player visible stays in chase and
\* records the player position; with the player not visible it enters
\* search, resets timer and index, and generates the waypoints from the
\* unchanged last-known position.
C7_Theorem ==
    ai.state = "chase" =>
        \A playerPos \in PlayerPositions, delta \in Deltas,
           playerVel \in PlayerVelocities, rnd \in Draws :
            LET seen == AfterUpdate(TRUE, playerPos, delta, playerVel, rnd)
                lost == AfterUpdate(FALSE, playerPos, delta, playerVel, rnd)
            IN  /\ seen.state = "chase"
                /\ seen.lastKnownPlayerPos = playerPos
                /\ lost.state = "search"
                /\ lost.stateTimer = 0
                /\ lost.currentWaypointIndex = 0
                /\ lost.lastKnownPlayerPos = ai.lastKnownPlayerPos
                /\ lost.searchWaypoints =
                       generateSearchWaypoints(ai.lastKnownPlayerPos, playerVel,
                                               rnd[3], rnd[4], rnd[5], rnd[6], rnd[7])

\* A chase that has lasted some ticks, after a search whose index had
\* advanced.
C7_Witness ==
    ai.state = "chase" /\ ai.stateTimer > 0 /\ ai.currentWaypointIndex > 0

\* The waypoints lie around the centre c: the first within the reach of
\* jitter and heading, the others on the search radius at c's height.
AroundPosition(wps, c) ==
    /\ DistSq(wps[1], c) <= 50 * 50
    /\ \A i \in 2..4 :
        /\ wps[i][2] = c[2]
        /\ DistSq(wps[i], c) >= (searchRadius - 1) * (searchRadius - 1)
        /\ DistSq(wps[i], c) <= (searchRadius + 1) * (searchRadius + 1)

Twins(a) ==
    { [a EXCEPT !.lastKnownPlayerPos = p, !.currentWaypointIndex = i] :
        p \in PlayerPositions \cup {Zero}, i \in {3} }

\* The state and the timer an update ends with.
Outcome(a, playerVisible, playerPos, delta, playerVel, rnd) ==
    LET n == updateAIState(a, playerVisible, playerPos, delta, playerVel, rnd)
    IN  <<n.state, n.stateTimer>>

\* C9: the state and the timer after an update depend only on the state,
\* the timer and the inputs: not on the random draws, nor on the rest of
\* the AI state.
C9_Theorem ==
    \A playerVisible \in BOOLEAN, playerPos \in PlayerPositions, delta \in Deltas,
       playerVel \in PlayerVelocities :
        Cardinality({ Outcome(a, playerVisible, playerPos, delta, playerVel, rnd) :
                        a \in Twins(ai) \cup {ai}, rnd \in Draws }) = 1

\* A search whose waypoints were drawn with the third sequence of draws.
C9_Witness ==
    /\ ai.state = "search"
    /\ ai.stateTimer = 0
    /\ ai.searchWaypoints[3] = VAdd(ai.lastKnownPlayerPos, spiralOffset(2, 9))

\* C10: an update changes lastKnownPlayerPos only on a tick with the player
\* visible or on a tick that enters search.
C10_Theorem ==
    \A playerVisible \in BOOLEAN, playerPos \in PlayerPositions, delta \in Deltas,
       playerVel \in PlayerVelocities, rnd \in Draws :
        LET n == AfterUpdate(playerVisible, playerPos, delta, playerVel, rnd)
        IN  n.lastKnownPlayerPos # ai.lastKnownPlayerPos =>
                playerVisible \/ (n.state = "search" /\ ai.state # "search")

\* A search that went on without visibility, still centred where its
\* waypoints were generated.
C10_Witness ==
    /\ ai.state = "search"
    /\ ai.stateTimer > 0
    /\ \E r \in RandomValues :
           ai.searchWaypoints[2] = VAdd(ai.lastKnownPlayerPos, spiralOffset(1, r))

-----------------------------------------------------------------------------
(* Properties of the movement target. *)

Abs(n) == IF n < 0 THEN -n ELSE n

\* Enemy positions at which the chase lead is examined: on the player, 0.8
\* and 12 units from a player position, and the spawn point (beyond the
\* 22.5 units at which the lead saturates).
LeadEnemyPositions == EnemyPositions \cup PlayerPositions \cup {<<100, 5, 120>>}

\* The distance from which the lead time is capped: 15 * 1.5 units.
LeadCapDistance == (ChaseLeadCap * ChaseLeadDivisor) \div 10

\* C11: in chase the movement target is the player position plus the player
\* velocity times a lead time that is proportional to the enemy-to-player
\* distance (distance / 15), is 0 at distance 0 and never exceeds 1.5 s; in
\* alert the target is the raw player position.  The call changes nothing.
C11_Theorem ==
    \A enemyPos \in LeadEnemyPositions, playerPos \in PlayerPositions,
       playerVel \in PlayerVelocities :
        LET r == getMovementTarget(ai, enemyPos, playerPos, playerVel)
            lead == VSub(r.target, playerPos)
            capLead == VDiv(VScale(playerVel, ChaseLeadCap), 10)
            dist == VLen(VSub(enemyPos, playerPos))
        IN  /\ ai.state = "alert" => (r.target = playerPos /\ r.ai = ai)
            /\ ai.state = "chase" =>
                  /\ r.ai = ai
                  /\ enemyPos = playerPos => r.target = playerPos
                  /\ dist >= LeadCapDistance => lead = capLead
                  /\ \A k \in 1..3 :
                        /\ Abs(lead[k]) <= Abs(capLead[k])
                        /\ dist < LeadCapDistance =>
                              Abs(ChaseLeadDivisor * lead[k] - playerVel[k] * dist)
                                  < ChaseLeadDivisor

\* A chase whose cached target is the player position led by the full 1.5 s.
C11_Witness ==
    /\ ai.state = "chase"
    /\ \E playerPos \in MovePlayerPositions, playerVel \in MovePlayerVelocities :
           /\ playerVel # Zero
           /\ cachedTarget = VAdd(playerPos, VDiv(VScale(playerVel, ChaseLeadCap), 10))

\* C13: the visibility signal handed to the state machine is true only when
\* the player is inside the 25-unit vision range; at an enemy-to-player
\* distance of 25 units or more it is false.
C13_Claim == lastCanSee => sightDistance < VISION_DISTANCE

\* C12: in search the movement target is a waypoint of the current list;
\* within 2 units of the current waypoint the index advances by exactly one,
\* index 3 wrapping to 0, and the new waypoint is returned; otherwise the
\* index is unchanged and the current waypoint is returned.
C12_Theorem ==
    ai.state = "search" =>
        \A enemyPos \in EnemyPositionsOf(ai), playerPos \in PlayerPositions,
           playerVel \in PlayerVelocities :
            LET r == getMovementTarget(ai, enemyPos, playerPos, playerVel)
                i == ai.currentWaypointIndex
                reached == DistSq(enemyPos, ai.searchWaypoints[i + 1]) < 20 * 20
                j == IF reached THEN (IF i = 3 THEN 0 ELSE i + 1) ELSE i
            IN  /\ r.ai = [ai EXCEPT !.currentWaypointIndex = j]
                /\ r.target = ai.searchWaypoints[j + 1]

\* A search whose index was advanced three times, to the last waypoint.
C12_Witness ==
    /\ ai.state = "search"
    /\ ai.currentWaypointIndex = 3
    /\ ai.stateTimer > 0

-----------------------------------------------------------------------------
(* Properties of the enemy in the game. *)

\* The step is a frame of the mounted enemy.
EnemyFrameStep == currentTime' # currentTime

\* The game is in play as a frame callback sees it.
InPlay == ~isPaused /\ gameState = "playing"

\* C14: while the game is in play with the enemy idle, once the player is in
\* clear sight within the vision range the AI state becomes alert within one
\* AI tick interval.  Whatever the tick interval is, as long as it is shorter
\* than the modelled time: an enemy that has had the player in clear sight
\* for longer than that interval is no longer idle.
C14_Claim ==
    \E interval \in 1..(MaxClock - 1) :
        (useV2AI /\ seenFor > interval) => ai.state # "idle"

\* C15: the line-of-sight check, the state machine update and the avoidance
\* check run only on AI ticks, an AI tick happens on the first frame in play
\* at which more than the tick interval has passed since the previous tick
\* (here: for every tick interval shorter than the modelled time), and the
\* force is applied on every frame in play.
C15_Claim ==
    [][ (EnemyFrameStep /\ useV2AI /\ InPlay) =>
          /\ lastAIUpdate' = lastAIUpdate =>
                UNCHANGED <<ai, cachedTarget, lastAvoidanceForce, sightVars>>
          /\ currentTime' - lastAIUpdate >= MaxClock => lastAIUpdate' = currentTime'
          /\ force' # <<>> ]_vars

\* C20: a frame in play at which the enemy is closer than 1.1 units to the
\* player sets the game state to gameover and triggers the collision cue;
\* gameover is signalled by no other step.
C20_Claim ==
    [][ /\ (EnemyFrameStep /\ InPlay /\ inContact(enemyBodyPos', playerBodyPos')) =>
              (gameState' = "gameover" /\ bonk')
        /\ (gameState' = "gameover" /\ gameState # "gameover") =>
              (EnemyFrameStep /\ InPlay /\ inContact(enemyBodyPos', playerBodyPos')) ]_vars

\* The latest player frame ran in play with the body below the floor and
\* commanded the reset: spawn point, zero velocity, zero angular velocity.
PlayerResetDone ==
    (pframe.inPlay /\ pframe.reading.y < ResetFloor) =>
        playerCmd = [ position |-> PlayerRespawn, velocity |-> Zero, angularVelocity |-> Zero ]

\* C19: on a frame in play at which the body is below -20, the body is
\* teleported to its spawn point and both its linear and its angular
\* velocity are set to zero, for the player and for the enemy.
C19_Claim ==
    [][ /\ PlayerResetDone'
        /\ (EnemyFrameStep /\ InPlay /\ enemyBodyPos'[2] < ResetFloor) =>
              /\ enemyCmd'.position # NoCommand
              /\ enemyCmd'.velocity = Zero
              /\ enemyCmd'.angularVelocity = Zero ]_vars

-----------------------------------------------------------------------------
(* Properties of the player. *)

\* C16: on a hitch frame (more than 0.05 s) that follows a frame of at most
\* 0.05 s on which the velocity was stored, if the stored horizontal
\* velocity is not zero, the velocity commanded to the body has the stored
\* x and z components and the body's current vertical component.  Stated
\* for frames in play above the floor, where no later command of the frame
\* replaces the velocity.
C16_Claim ==
    ( /\ pframe.hitch
      /\ pframe.prevCaptured
      /\ pframe.inPlay
      /\ pframe.reading.y >= ResetFloor
      /\ (lastGoodVelocity[1] # 0 \/ lastGoodVelocity[3] # 0) ) =>
        playerCmd.velocity =
            <<lastGoodVelocity[1], pframe.reading.velocity[2], lastGoodVelocity[3]>>

\* C17: on a frame in play with no movement key held, the ball on the ground
\* and an angular speed above 0.1, the applied torque is not zero and its
\* dot product with the angular velocity is negative.
C17_Claim ==
    LET keys == pframe.reading.keys
        w == pframe.reading.angularVelocity
    IN  ( /\ pframe.inPlay
          /\ ~(keys.w \/ keys.a \/ keys.s \/ keys.d)
          /\ pframe.reading.grounded
          /\ LenSq(w) > 1 ) =>
            (torque # Zero /\ Dot(torque, w) < 0)

\* C18: the jump impulse is applied only on a frame in play with the jump
\* key held, the ball on the ground and no cooldown running, which is never
\* before 0.5 s have passed since the previous impulse; and a cooldown
\* always ends: the ball can jump again, or has jumped again (when the
\* timeout ran right before the frame that jumps).
C18_Theorem ==
    /\ [](impulse => /\ pframe.inPlay
                      /\ pframe.reading.keys.space
                      /\ pframe.reading.grounded
                      /\ pframe.elapsed >= 10)
    /\ [](sinceJump < 10 => ~canJump)
    /\ ((~canJump /\ ~impulse) ~> (canJump \/ impulse))

\* A frame in play with the jump key held on the ground, refused during the
\* cooldown of an earlier jump.
C18_Witness ==
    /\ ~canJump
    /\ sinceJump > 0
    /\ ~impulse
    /\ pframe.inPlay
    /\ pframe.reading.keys.space
    /\ pframe.reading.grounded

-----------------------------------------------------------------------------
(* The sonar's gain and pitch. *)

\* The maximal distance and the volume of the branch an update took.
BranchMaxDist(cmd) ==
    IF cmd.closing THEN cmd.settings.audioClosingMaxDist ELSE cmd.settings.audioOpeningMaxDist

BranchVolume(cmd) ==
    IF cmd.closing THEN cmd.settings.audioClosingVolume ELSE cmd.settings.audioOpeningVolume

\* toneVolume * branchVolume * (1 - distance / maxDist)^2 in units of 10^-4,
\* and 0 from maxDist on.
QuadraticGain(cmd) ==
    LET full == cmd.settings.audioToneVolume * BranchVolume(cmd) * 100
        maxDist == BranchMaxDist(cmd)
        rest == maxDist - cmd.distance
    IN  IF rest <= 0 THEN 0
        ELSE (((rest * rest) \div 100) * full) \div ((maxDist * maxDist) \div 100)

\* C22 as stated: on an update of the active sonar the target gain is 0
\* from the branch's maxDist on and the quadratic falloff of the branch
\* below it, at every distance.
C22_Claim == sonarCmd.active => sonarCmd.gain = QuadraticGain(sonarCmd)

\* C22, amended: on an update of the active sonar at a distance of at least
\* the solid threshold of 10 units, the target gain is 0 from the branch's
\* maxDist on and toneVolume * branchVolume * (1 - distance / maxDist)^2
\* below it, each branch with its own maxDist and volume; below the solid
\* threshold the target gain is toneVolume * branchVolume itself.
C22_Theorem ==
    sonarCmd.active =>
        /\ sonarCmd.distance >= 100 => sonarCmd.gain = QuadraticGain(sonarCmd)
        /\ sonarCmd.distance < 100 =>
              sonarCmd.gain = sonarCmd.settings.audioToneVolume * BranchVolume(sonarCmd) * 100

\* An update of the active sonar in the closing branch, between the solid
\* threshold and the branch's maxDist, that set a gain strictly between 0
\* and the full volume.
C22_Witness ==
    /\ sonarCmd.active
    /\ sonarCmd.closing
    /\ sonarCmd.distance >= 100
    /\ sonarCmd.distance < BranchMaxDist(sonarCmd)
    /\ sonarCmd.gain > 0
    /\ sonarCmd.gain < sonarCmd.settings.audioToneVolume * BranchVolume(sonarCmd) * 100

\* C23: on an update of the active sonar the solid tone is taken exactly
\* when the distance is below the solid tone distance of the settings, in
\* either branch, and between two solid updates the pitch is higher at the
\* smaller distance.
C23_Claim ==
    /\ [](sonarCmd.active =>
            (sonarCmd.solid <=> sonarCmd.distance < sonarCmd.settings.audioSolidDistance))
    /\ [][(sonarCmd.solid /\ sonarCmd'.solid /\ sonarCmd'.distance < sonarCmd.distance)
             => sonarCmd'.pitch > sonarCmd.pitch]_vars

-----------------------------------------------------------------------------
(* Properties of the obstacle cache. *)

\* The step is a frame of the mounted EnemySphereV2 that collected the
\* obstacle list again.
CacheRebuilt ==
    /\ useV2AI /\ useV2AI'
    /\ currentTime' # currentTime
    /\ cachedObstacles' # cachedObstacles

-----------------------------------------------------------------------------
(* Who writes the AI state. *)

\* The fields that only the state machine update may write.
MachineFields(a) == <<a.state, a.stateTimer, a.lastKnownPlayerPos>>

\* C28: state, stateTimer and lastKnownPlayerPos are written by
\* updateAIState only.  A call of getMovementTarget with any inputs returns
\* them as they were (getSpeedMultiplier and getStateVisuals are handed the
\* state label, not the object), and whenever a frame of the enemy changes
\* one of the three, the new values are those that the frame's
\* updateAIState call returned.
C28_Theorem ==
    /\ [](\A enemyPos \in EnemyPositionsOf(ai), playerPos \in MovePlayerPositions,
             playerVel \in MovePlayerVelocities :
              MachineFields(getMovementTarget(ai, enemyPos, playerPos, playerVel).ai)
                  = MachineFields(ai))
    /\ [][MachineFields(ai') # MachineFields(ai) =>
              \E hit \in ObstacleHits, playerPos \in MovePlayerPositions,
                 delta \in Deltas, playerVel \in MovePlayerVelocities,
                 rnd \in MoveDraws, position \in EnemyPositionsOf(ai) :
                  MachineFields(ai') =
                      MachineFields(updateAIState(ai,
                                                  lineOfSight(position, playerPos, hit).canSee,
                                                  playerPos, delta, playerVel, rnd))]_vars

\* A search in which getMovementTarget has moved on to the next waypoint
\* while the timer of the search kept running.
C28_Witness ==
    /\ ai.state = "search"
    /\ ai.currentWaypointIndex > 0
    /\ ai.stateTimer > 0
    /\ force # <<>>

-----------------------------------------------------------------------------
(* Properties of the force applied to the enemy. *)

\* The state multiplier of the force, in tenths.
StateMultiplier(state) ==
    IF state = "idle" THEN 0
    ELSE IF state = "alert" THEN 1
    ELSE IF state = "chase" THEN 15
    ELSE 12

\* The direction the enemy wants to move in, in hundredths: at the player
\* in alert and chase, at the cached movement target otherwise.
DesiredDirection(state, position, playerPos, target) ==
    NormalizeTimes(VSub(IF state \in {"alert", "chase"} THEN playerPos ELSE target,
                        position), 100)

\* The braking correction, in hundredths: against the direction of the
\* velocity, by (1 - alignment) * speed / 2, when the alignment of velocity
\* and desired direction is below 0.3 and the speed is above 2 units/s;
\* none otherwise.
BrakingCorrection(velocity, desiredDir) ==
    LET velDir == NormalizeTimes(velocity, 100)
        alignment == Dot(velDir, desiredDir)
        strength == DivTrunc((10000 - alignment) * VLen(velocity), 2000)
    IN  IF alignment < 3000 /\ LenSq(velocity) > 20 * 20
        THEN << -DivTrunc(velDir[1] * strength, 100), 0, -DivTrunc(velDir[3] * strength, 100) >>
        ELSE Zero

\* The force on a frame in play as the sum of the three terms, scaled.
SteeringForce(state, position, velocity, playerPos, target, avoidance, grounded, enemySpeed, enemyAirControl) ==
    LET desiredDir == DesiredDirection(state, position, playerPos, target)
        sum == VAdd(VAdd(desiredDir, avoidance), BrakingCorrection(velocity, desiredDir))
        airFactor == IF grounded THEN 100 ELSE enemyAirControl
        scale == enemySpeed * 15 * StateMultiplier(state) * airFactor
    IN  << sum[1] * scale, 0, sum[3] * scale >>

\* C29: the force applied to the enemy on a frame in play has no vertical
\* component and is (desired direction + cached avoidance force + braking
\* correction) * enemySpeed * 15 * stateMultiplier * airControl, for the
\* position, velocity, ground contact and settings of that frame, with the
\* AI state, the movement target and the avoidance force that the frame's
\* AI tick, if any, left.
C29_Theorem ==
    /\ [](force # <<>> => force[2] = 0)
    /\ [](ai.state = "idle" /\ force # <<>> => force = Zero)
    /\ [][\E position \in EnemyPositionsOf(ai), velocity \in EnemyVelocities,
             playerPos \in MovePlayerPositions, grounded \in BOOLEAN,
             enemySpeed \in EnemySpeeds, enemyAirControl \in AirControls :
              force' = SteeringForce(ai'.state, position, velocity, playerPos,
                                     cachedTarget', lastAvoidanceForce', grounded,
                                     enemySpeed, enemyAirControl)]_vars

\* A chase frame in the air with the cached avoidance force and the braking
\* correction: the enemy at 0.8 units from the player moves away from it at
\* 5 units/s, and the air control of 0.5 halves the force.
C29_Witness ==
    /\ ai.state = "chase"
    /\ lastAvoidanceForce # Zero
    /\ force = SteeringForce("chase", <<100, 5, 8>>, <<-40, 0, 30>>, <<100, 5, 0>>,
                             cachedTarget, lastAvoidanceForce, FALSE, 20, 50)
    /\ BrakingCorrection(<<-40, 0, 30>>,
                         DesiredDirection("chase", <<100, 5, 8>>, <<100, 5, 0>>, cachedTarget))
           # Zero
    /\ force # Zero

-----------------------------------------------------------------------------
(* Properties of the scene. *)

\* C21: the sonar's oscillator and gain node exist only while the game is
\* in play and not paused; whatever ends that (pause, game over, restart)
\* leaves neither of them.
C21_Theorem ==
    (soundManager.sonarOsc \/ soundManager.sonarGain) => InPlay

\* The game is over after the sonar was sounding: the last update found the
\* oscillator, and now the oscillator and the gain node are gone.
C21_Witness ==
    /\ gameState = "gameover"
    /\ sonarCmd.active
    /\ ~soundManager.sonarOsc
    /\ ~soundManager.sonarGain

\* The step is the frame callback of PlayerSphere, of the enemy.
PlayerCallback == rendered.last = "GameLogic" /\ rendered'.last = "PlayerSphere"
EnemyCallback == rendered.last = "PlayerSphere" /\ rendered'.last = "Enemy"

\* The step loads the page again.
Reload == gameState = "gameover" /\ gameState' = "start"

\* What the enemy and the player keep from frame to frame.
EnemyRefs == <<ai, cachedTarget, lastAvoidanceForce, lastCanSee, lastAIUpdate, lastUIUpdate,
               cachedObstacles, lastCacheUpdate>>
PlayerRefs == <<lastGoodVelocity>>

StepRank(step) ==
    IF step = "ai" THEN 1
    ELSE IF step = "motion" THEN 2
    ELSE IF step = "camera" THEN 3
    ELSE 4

\* C25: the steps of a rendered frame run in the order AI update, motion,
\* camera smoothing, audio update, after the physics state was ingested: no
\* step runs after a step that is later in that order, and the audio update
\* of a frame runs after the frame's motion step.
C25_Claim ==
    LET steps == rendered.steps
    IN  /\ \A i, j \in DOMAIN steps : i < j => StepRank(steps[i]) <= StepRank(steps[j])
        /\ \A i \in DOMAIN steps :
              steps[i] = "audio" => \E j \in 1..(i - 1) : steps[j] = "motion"

\* C26: without an audio backend the sound engine is disabled from the
\* start, no audio call creates a sonar node or sets a gain or a pitch, and
\* no frame callback ends in an error.
C26_Claim ==
    /\ (~soundManager.ctx => ~soundManager.enabled)
    /\ [](~soundManager.ctx =>
              /\ ~soundManager.sonarOsc /\ ~soundManager.sonarGain
              /\ ~sonarCmd.active
              /\ ~raised)

\* C27: two consecutive calls of the same store setter (setPlayerPosition,
\* setEnemyPosition, setDebugVelocity) are at least 0.2 s apart.
C27_Claim ==
    \A k \in Setters : published.gap[k] # NoGap => published.gap[k] >= LogicThrottle

-----------------------------------------------------------------------------
(* Properties of the sonar nodes. *)

\* The step is a call of startSonar, of stopSonar.
StartSonarCall == soundManager' = startSonar(soundManager)
StopSonarCall == soundManager' = stopSonar(soundManager)

\* C37: after any sequence of startSonar, stopSonar, updateSonar and
\* setEnabled calls the sonar oscillator and the sonar gain node are both
\* there or both absent, and at most one oscillator is started and not
\* stopped (one exactly when the sonar nodes are there); startSonar with a
\* sonar running and stopSonar with none leave the sound engine as it is.
C37_Theorem ==
    /\ [](soundManager.sonarOsc <=> soundManager.sonarGain)
    /\ [](soundManager.running = IF soundManager.sonarOsc THEN 1 ELSE 0)
    /\ [](soundManager.sonarOsc => startSonar(soundManager) = soundManager)
    /\ [](~soundManager.sonarOsc => stopSonar(soundManager) = soundManager)
    /\ [][(soundManager.sonarOsc /\ StartSonarCall) => UNCHANGED soundManager]_vars
    /\ [][(~soundManager.sonarOsc /\ StopSonarCall) => UNCHANGED soundManager]_vars

\* A sonar is running, the sound was switched off after it started, and an
\* update found it.
C37_Witness ==
    /\ soundManager.sonarOsc
    /\ soundManager.sonarGain
    /\ soundManager.running = 1
    /\ ~soundManager.enabled
    /\ sonarCmd.distance > 0

\* C38: whenever the game is playing and not paused, the sound is enabled
\* and the audio context is there, the sonar oscillator is running.
C38_Claim ==
    (gameState = "playing" /\ ~isPaused /\ soundManager.enabled /\ soundManager.ctx)
        => soundManager.sonarOsc

-----------------------------------------------------------------------------
(* Properties of the session. *)

\* The handler of a Space key press or of a mouse-down ran in the step.
ResumeInput == handled' # handled /\ handled'.event \in {"space", "mousedown"}

\* C32: whenever the game is paused, a Space key press or a mouse-down
\* clears the pause, in every game state and whatever caused the pause.
C32_Claim == [][(isPaused /\ ResumeInput) => ~isPaused']_vars

\* C33: while the game is paused the countdown value does not decrease and
\* the game does not pass from countdown to playing.
C33_Claim ==
    [][isPaused => /\ countdownValue' >= countdownValue
                   /\ ~(gameState = "countdown" /\ gameState' = "playing")]_vars

\* C34: gameState follows start, setup, countdown, playing, gameover:
\* playing is entered only from countdown with the countdown value at 0,
\* gameover only from playing, gameover is left only by restartGame, to
\* start with the countdown value 5 and the pause flag off, and 'won' is
\* never reached.
C34_Theorem ==
    /\ [](gameState \in GameStates \ {"won"})
    /\ [][gameState' # gameState =>
            \/ gameState = "start" /\ gameState' = "setup"
            \/ gameState = "setup" /\ gameState' = "countdown"
            \/ gameState = "countdown" /\ gameState' = "playing" /\ countdownValue' = 0
            \/ gameState = "playing" /\ gameState' = "gameover"
            \/ /\ gameState = "gameover" /\ gameState' = "start"
               /\ countdownValue' = CountdownStart /\ ~isPaused']_vars

\* The game was started, counted down and played until the enemy tagged
\* the player.
C34_Witness ==
    /\ gameState = "gameover"
    /\ countdownValue = 0
    /\ bonk
    /\ cues.called[GoCue] = 1

\* The countdown value changes by one step down in countdown, and by the
\* reset of a restart.
CountsDown ==
    [][countdownValue' # countdownValue =>
          \/ gameState = "countdown" /\ countdownValue' = countdownValue - 1
          \/ gameState = "gameover" /\ countdownValue' = CountdownStart]_vars

\* The cues at each stage, by the count kept in counts: in countdown one
\* beep for each value from 5 down to the value shown and no go signal; in
\* play and after it one beep for each value and one go signal.
CuesOnce(counts) ==
    /\ gameState \in {"start", "setup"} => \A c \in Cues : counts[c] = 0
    /\ gameState = "countdown" =>
          /\ countdownValue > 0
          /\ counts[GoCue] = 0
          /\ \A v \in 1..CountdownStart : counts[v] = IF v >= countdownValue THEN 1 ELSE 0
    /\ gameState \in {"playing", "gameover"} =>
          /\ countdownValue = 0
          /\ \A c \in Cues : counts[c] = 1

\* C35: once the game is in countdown the countdown value goes down by 1
\* at a time from 5 to 0, exactly one countdown beep is played for each of
\* the values 5..1, and the game then reaches playing with the go signal
\* played exactly once.
C35_Claim ==
    /\ CountsDown
    /\ [](CuesOnce(cues.sounded))
    /\ (gameState = "countdown" ~> gameState = "playing")

\* C35, amended: ..., playCountdownBeep is called exactly once for each of
\* the values 5..1 and playGoSignal exactly once on reaching playing, and a
\* cue sounds exactly if the sound engine is enabled with its audio backend
\* at that call.
C35_Theorem ==
    /\ CountsDown
    /\ [](CuesOnce(cues.called))
    /\ [][\/ gameState = "gameover" /\ cues' = NoCues
          \/ \A c \in Cues :
                cues'.sounded[c] - cues.sounded[c] =
                    IF cues'.called[c] > cues.called[c] /\ sounds(soundManager) THEN 1 ELSE 0]_cues
    /\ (gameState = "countdown" ~> gameState = "playing")

\* The game is in play after a countdown of which the beep of 3 was
\* silent and the go signal sounded.
C35_Witness ==
    /\ gameState = "playing"
    /\ \A c \in Cues : cues.called[c] = 1
    /\ cues.sounded[3] = 0
    /\ cues.sounded[GoCue] = 1

-----------------------------------------------------------------------------
(* Properties of the frames outside play. *)

\* A frame of the player's callback ran.
PlayerFrameStep == pframe' # pframe \/ playerCmd' # playerCmd

\* The commands pin the body: the horizontal velocity and the angular
\* velocity are commanded to zero, and the position is not commanded.
Pinned(cmd) ==
    /\ cmd.velocity # NoCommand
    /\ cmd.velocity[1] = 0
    /\ cmd.velocity[3] = 0
    /\ cmd.angularVelocity = Zero
    /\ cmd.position = NoCommand

\* C31: in setup and countdown, unpaused, every frame of the player and of
\* the enemy ends with the body's horizontal velocity and its angular
\* velocity commanded to zero and the vertical velocity preserved, with no
\* torque, force or impulse and no AI tick; in gameover a frame issues no
\* command at all to either body.
C31_Claim ==
    [][ /\ (EnemyFrameStep /\ ~isPaused /\ gameState \in {"setup", "countdown"}) =>
              /\ Pinned(enemyCmd')
              /\ UNCHANGED <<force, ai, lastAIUpdate>>
        /\ (EnemyFrameStep /\ gameState = "gameover") =>
              /\ enemyCmd' = NoCommands
              /\ UNCHANGED <<force, ai, lastAIUpdate>>
        /\ (PlayerFrameStep /\ ~isPaused /\ gameState \in {"setup", "countdown"}) =>
              /\ Pinned(playerCmd')
              /\ playerCmd'.velocity[2] = pframe'.reading.velocity[2]
              /\ torque' = <<>>
              /\ ~impulse'
        /\ (PlayerFrameStep /\ gameState = "gameover") =>
              /\ playerCmd' = NoCommands
              /\ torque' = <<>>
              /\ ~impulse' ]_vars

-----------------------------------------------------------------------------
(* Properties of the player's visual effects. *)

\* A frame of the player's callback ran with the pause flag as it was.
VisualsFrameStep ==
    /\ isPaused' = isPaused
    /\ <<pframe, sinceJump, impulse, particles, smoothing>>' #
           <<pframe, sinceJump, impulse, particles, smoothing>>

\* The particle list is within the cap, a step adds at most ten particles
\* and none to a full list, and no particle with life at or below zero is
\* left after an update.
ParticlesBounded ==
    /\ [](Len(particles) <= MAX_PARTICLES)
    /\ [](\A i \in 1..Len(particles) : particles[i] > 0)
    /\ [][ /\ Len(particles') <= Len(particles) + BurstSize
           /\ Len(particles') > Len(particles) => impulse'
           /\ Len(particles) = MAX_PARTICLES => Len(particles') <= MAX_PARTICLES ]_vars

\* A step ages the particles there are: each of them is removed, its life
\* at or below zero, or is left with its life reduced by the frame time.
Aged ==
    LET d == pframe'.delta
        kept == SelectSeq(particles, LAMBDA life : life > d)
    IN  /\ particles # <<>>
        /\ particles' # particles
        /\ Len(particles') >= Len(kept)
        /\ \A i \in 1..Len(kept) : particles'[i] = kept[i] - d

\* C36: at most 100 particles exist at any time; each jump adds at most 10
\* and none once the cap is reached; a particle is removed at the first
\* update at which its life is at or below zero; and with frames continuing
\* every particle is eventually removed: again and again there is no
\* particle, or again and again the particles there are age.
C36_Claim ==
    /\ ParticlesBounded
    /\ ([]<>(particles = <<>>) \/ []<><<Aged>>_vars)

\* C36, amended: the bounds as claimed; the particle update runs on frames
\* in play only, where it reduces every life by the frame time, removes the
\* particles whose life is at or below zero and leaves the particles of the
\* frame's jump behind the older ones; a step outside play leaves the
\* particles as they are; with frames in play continuing, again and again
\* there is no particle or the particles there are age.
C36_Theorem ==
    /\ ParticlesBounded
    /\ [][ IF InPlay
           THEN VisualsFrameStep =>
                  LET d == pframe'.delta
                      kept == SelectSeq(particles, LAMBDA life : life > d)
                  IN  /\ Len(particles') >= Len(kept)
                      /\ \A i \in 1..Len(particles') :
                            particles'[i] = IF i <= Len(kept) THEN kept[i] - d
                                            ELSE ParticleLife - d
           ELSE particles' = particles ]_vars
    /\ ([]<>(particles = <<>> \/ ~InPlay) \/ []<><<Aged>>_vars)

\* A jump with the list at the cap: no particle was added, and none of the
\* hundred ran out on that frame.
C36_Witness ==
    /\ impulse
    /\ pframe.inPlay
    /\ Len(particles) = MAX_PARTICLES
    /\ particles[MAX_PARTICLES] < ParticleLife - pframe.delta

\* C39: every interpolation factor handed to lerp and slerp (twice the
\* adaptive factor for the camera target, the adaptive factor for the
\* camera position, three times the smoothing factor for the ball) is
\* within [0, 1], for every camera stiffness from 1 to 50.
C39_Claim ==
    \A f \in {smoothing.camTarget, smoothing.camPos, smoothing.ball} : f \in 0..1000

====
